---- MODULE Spec2Model ----
(***************************************************************************)
(* Screenwright: the recording runner (capture loop, instrumentation API,  *)
(* narration queue, transition markers), the frame resolver and the        *)
(* compose pipeline, as state machines.                                    *)
(*                                                                         *)
(* Conventions.  A frame file "frames/frame-NNNNNN.jpg" is modelled by its *)
(* number NNNNNN (the name is an injective function of the counter); a     *)
(* "frames/transition-NNNN.jpg" image by a number above OverrideBase.  An  *)
(* optional field of a JS object is a record field that is present or      *)
(* absent; `x ?? d` is Nullish.  A fraction is a record [num, den].        *)
(***************************************************************************)
EXTENDS Integers, Sequences, FiniteSets, TLC

VARIABLES
    \* compose pipeline (commands/compose.js)
    scenario,            \* the scenario function: the operations it issues, in order
    narrations,          \* texts collected by the preprocessing stub
    pregenerated,        \* pre-generated narration segments handed to the runner
    pc,                  \* position of the pipeline / of the scenario coroutine
    error,               \* the error the pipeline failed with ("none": no failure)
    voiceover,           \* opts.voiceover !== false (FALSE: --no-voiceover)
    failedSteps,         \* the pipeline steps reported with pipe.fail
    \* recording runner (runtime/timeline-collector.ts, runtime/action-helpers.ts)
    opIndex,             \* 1-based index of the operation the scenario is at
    events,              \* TimelineCollector.events
    virtualFrameIndex,   \* virtual clock, in frames
    frameFileCounter,    \* number of the last frame file name handed out
    captureRunning,      \* capture loop flag
    loopPc,              \* capture loop position: "idle" | "shot" | "sleep"
    loopFile,            \* file name the capture loop's screenshot in flight writes to
    loopTicks,           \* iterations the capture loop has started after sleeping
    captureFile,         \* file name the explicit screenshot in flight writes to
    narrationQueue,      \* pre-generated narrations not yet consumed
    narrationConsumed,   \* number of narrations popped
    transitionPending,   \* ctx.transitionPending
    wasPending,          \* local of the running action
    startMs,             \* local of the running action
    \* timeline metadata
    manifest,            \* frameManifest: sequence of frame / hold entries
    transitionMarkers,   \* transition markers, in insertion order
    \* renderer (composition/render.js, DemoVideo, NarrationTrack)
    durationInFrames,    \* composition length chosen by the renderer (0: not yet)
    audioTracks,         \* the <Audio> sequences NarrationTrack places
    outputFrame,         \* the output frame last handed to the resolver
    resolution,          \* what resolveOutputFrame returned for it
    showChrome,          \* DemoVideo draws the browser chrome on that frame
    showCursor,          \* DemoVideo draws the cursor overlay on that frame
    \* composition/time-remap.ts applied to bounded inputs
    slideScenes,         \* the resolved slide scenes handed to both functions
    outputTimeMs,        \* the output time last handed to sourceTimeMs
    sourceTime,          \* what sourceTimeMs returned for it
    remapIn,             \* the events handed to remapEvents
    remapOut,            \* what remapEvents returned
    \* runtime/narration-preprocess.js: mapSilencesToSegments applied to bounded inputs
    texts,               \* the narration texts
    silences,            \* the detected silences
    totalDurationMs,     \* the measured duration of the audio
    segments,            \* what mapSilencesToSegments returned
    \* recording runner with frame deduplication (runtime/instrumented-page.js)
    lastFrameHash,       \* hash of the last buffer the loop wrote (0: '')
    lastFrameFile,       \* number of the file it was written to (0: '')
    loopBuf,             \* hash of the buffer the loop holds while it awaits pendingWrite
    pendingWrite,        \* number of the file writeFile has not finished (0: settled)
    diskWrites,          \* the file numbers handed to writeFile, in order
    dedupedFrames,       \* counter of the screenshots found equal to the previous one
    captureFailures,     \* counter of the loop's failed screenshots
    waitMs,              \* argument of the waitForDuration in progress
    targetFrame          \* local of the waitForDuration in progress

composeVars == <<scenario, narrations, pregenerated, pc, error>>

loopVars == <<captureRunning, loopPc, loopFile, loopTicks, frameFileCounter>>

runnerVars ==
    <<opIndex, events, virtualFrameIndex, captureFile, narrationQueue, narrationConsumed,
      transitionPending, wasPending, startMs>>

timelineVars == <<manifest, transitionMarkers>>

renderVars == <<durationInFrames, audioTracks, outputFrame, resolution, showChrome, showCursor>>

pipeVars == <<voiceover, failedSteps>>

remapVars == <<slideScenes, outputTimeMs, sourceTime, remapIn, remapOut>>

segmentVars == <<texts, silences, totalDurationMs, segments>>

captureVars ==
    <<lastFrameHash, lastFrameFile, loopBuf, pendingWrite, diskWrites, dedupedFrames,
      captureFailures, waitMs, targetFrame>>

pureVars == <<remapVars, segmentVars, captureVars>>

otherVars == <<pipeVars, pureVars>>

vars == <<composeVars, loopVars, runnerVars, timelineVars, renderVars, otherVars>>

-----------------------------------------------------------------------------
(* Bounds of the resolver inputs *)

MaxEntries == 3
MaxCount == 2
MaxMarkers == 2
MaxDuration == 2
MaxConsumed == 3
MaxOutputFrame == 6

(* Bounds of the recorded scenarios *)

MaxOps == 2
MaxLoopTicks == 1

(* Bounds of the runs of the deduplicating runner *)

MaxCalls == 3
MaxClock == 4
MaxHashes == 2
MaxFailures == 1

(* Bounds of the narration texts and of the synthesised audio, in characters and ms *)

MaxTexts == 4
MaxTextLen == 2
MaxSilences == 3
MaxAudioMs == 6

(* Bounds of the time-remap inputs, in ms *)

MaxSlides == 3
MaxSceneTime == 3
MaxSlideDuration == 2
MaxDeadAfter == 2
MaxEvents == 2
MaxEventTime == 4
MaxOutputTime == 10

-----------------------------------------------------------------------------
(* JS helpers *)

Nullish(rec, fld, dflt) == IF fld \in DOMAIN rec THEN rec[fld] ELSE dflt

Max(a, b) == IF a >= b THEN a ELSE b
Min(a, b) == IF a <= b THEN a ELSE b

\* null, and the truthiness test `if (x)` on a value that is null or a non-empty string
Null == "null"
Truthy(x) == x # Null

\* fractions: a number of milliseconds is kept exact as num / den
FracScale(k, a) == [num |-> k * a.num, den |-> a.den]
FracAdd(a, b) == [num |-> a.num * b.den + b.num * a.den, den |-> a.den * b.den]
FracLess(a, b) == a.num * b.den < b.num * a.den
FracLeq(a, b) == a.num * b.den <= b.num * a.den

\* Math.ceil(n / d) for d > 0, and Math.round(n / d) for n >= 0, d > 0
CeilDiv(n, d) == (n + d - 1) \div d
RoundDiv(n, d) == (2 * n + d) \div (2 * d)

-----------------------------------------------------------------------------
(* timeline/types *)

transitionTypes ==
    <<"fade", "wipe", "slide-up", "slide-left", "zoom", "doorway", "swap", "cube">>

-----------------------------------------------------------------------------
(* composition/frame-resolve.js *)

entryFrameCount(entry) == IF entry.type = "hold" THEN entry.count ELSE 1

RECURSIVE expandedFrameCountFrom(_, _)
expandedFrameCountFrom(m, i) ==
    IF i > Len(m) THEN 0
    ELSE entryFrameCount(m[i]) + expandedFrameCountFrom(m, i + 1)

expandedFrameCount(m) == expandedFrameCountFrom(m, 1)

\* the for-loop of sourceFrameImage from entry i (1-based) with `accumulated`
RECURSIVE sourceFrameImageFrom(_, _, _, _)
sourceFrameImageFrom(m, sourceFrame, i, accumulated) ==
    IF i > Len(m) THEN m[Len(m)].file
    ELSE IF sourceFrame < accumulated + entryFrameCount(m[i]) THEN m[i].file
    ELSE sourceFrameImageFrom(m, sourceFrame, i + 1, accumulated + entryFrameCount(m[i]))

sourceFrameImage(m, sourceFrame) == sourceFrameImageFrom(m, sourceFrame, 1, 0)

\* entryIndex is the 0-based index of the source
RECURSIVE entryToSourceFrame(_, _)
entryToSourceFrame(m, entryIndex) ==
    IF entryIndex <= 0 THEN 0
    ELSE IF entryIndex > Len(m) THEN entryToSourceFrame(m, Len(m))
    ELSE entryToSourceFrame(m, entryIndex - 1) + entryFrameCount(m[entryIndex])

lastSourceFrameOfEntry(m, entryIndex) ==
    entryToSourceFrame(m, entryIndex) + entryFrameCount(m[entryIndex + 1]) - 1

RECURSIVE SumInserted(_, _)
SumInserted(ts, i) ==
    IF i > Len(ts) THEN 0 ELSE ts[i].durationFrames + SumInserted(ts, i + 1)

RECURSIVE SumConsumed(_, _)
SumConsumed(ts, i) ==
    IF i > Len(ts) THEN 0 ELSE Nullish(ts[i], "consumedFrames", 1) + SumConsumed(ts, i + 1)

totalOutputFramesNoConsume(m, ts) == expandedFrameCount(m) + SumInserted(ts, 1)

totalOutputFrames(m, ts) ==
    expandedFrameCount(m) + SumInserted(ts, 1) - SumConsumed(ts, 1)

\* [...transitions].sort((a, b) => a.afterEntryIndex - b.afterEntryIndex):
\* Array.prototype.sort is stable, so this is a stable insertion.
RECURSIVE InsertSorted(_, _)
InsertSorted(sorted, t) ==
    IF sorted = <<>> THEN <<t>>
    ELSE IF sorted[Len(sorted)].afterEntryIndex <= t.afterEntryIndex THEN Append(sorted, t)
    ELSE Append(InsertSorted(SubSeq(sorted, 1, Len(sorted) - 1), t), sorted[Len(sorted)])

RECURSIVE SortMarkers(_)
SortMarkers(ts) ==
    IF ts = <<>> THEN <<>>
    ELSE InsertSorted(SortMarkers(SubSeq(ts, 1, Len(ts) - 1)), ts[Len(ts)])

SourceResolutionNoOffset(m, offset, f) ==
    LET sourceFrame == f
        clamped == Max(0, Min(sourceFrame, expandedFrameCount(m) - 1))
    IN [type |-> "source", file |-> sourceFrameImage(m, clamped)]

SourceResolution(m, offset, f) ==
    LET sourceFrame == f - offset
        clamped == Max(0, Min(sourceFrame, expandedFrameCount(m) - 1))
    IN [type |-> "source", file |-> sourceFrameImage(m, clamped)]

TransitionResolutionFromZero(m, t, sourceS, transStart, f) ==
    LET afterEntryIdx == t.afterEntryIndex + 1
    IN [type       |-> "transition",
        beforeFile |-> Nullish(t, "beforeFile", sourceFrameImage(m, sourceS)),
        afterFile  |-> Nullish(t, "afterFile",
                               IF afterEntryIdx < Len(m) THEN m[afterEntryIdx + 1].file
                               ELSE m[Len(m)].file),
        progress   |-> [num |-> f - transStart, den |-> t.durationFrames],
        transition |-> t.transition]

TransitionResolution(m, t, sourceS, transStart, f) ==
    LET afterEntryIdx == t.afterEntryIndex + 1
    IN [type       |-> "transition",
        beforeFile |-> Nullish(t, "beforeFile", sourceFrameImage(m, sourceS)),
        afterFile  |-> Nullish(t, "afterFile",
                               IF afterEntryIdx < Len(m) THEN m[afterEntryIdx + 1].file
                               ELSE m[Len(m)].file),
        progress   |-> [num |-> f - transStart + 1, den |-> t.durationFrames],
        transition |-> t.transition]

\* the same loop with offset += durationFrames, the consumed frames not subtracted
RECURSIVE resolveFromInsertedOnly(_, _, _, _, _)
resolveFromInsertedOnly(f, m, sorted, k, offset) ==
    IF k > Len(sorted) THEN SourceResolution(m, offset, f)
    ELSE LET t == sorted[k]
             sourceS == lastSourceFrameOfEntry(m, t.afterEntryIndex)
             outputS == sourceS + offset
             transStart == outputS + 1
             transEnd == outputS + t.durationFrames
         IN IF f <= outputS THEN SourceResolution(m, offset, f)
            ELSE IF f >= transStart /\ f <= transEnd
                 THEN TransitionResolution(m, t, sourceS, transStart, f)
            ELSE resolveFromInsertedOnly(f, m, sorted, k + 1, offset + t.durationFrames)

\* the for-loop of resolveOutputFrame from the k-th sorted marker on
RECURSIVE resolveFrom(_, _, _, _, _)
resolveFrom(f, m, sorted, k, offset) ==
    IF k > Len(sorted) THEN SourceResolution(m, offset, f)
    ELSE LET t == sorted[k]
             sourceS == lastSourceFrameOfEntry(m, t.afterEntryIndex)
             outputS == sourceS + offset
             transStart == outputS + 1
             transEnd == outputS + t.durationFrames
         IN IF f <= outputS THEN SourceResolution(m, offset, f)
            ELSE IF f >= transStart /\ f <= transEnd
                 THEN TransitionResolution(m, t, sourceS, transStart, f)
            ELSE resolveFrom(f, m, sorted, k + 1,
                             offset + t.durationFrames - Nullish(t, "consumedFrames", 1))

resolveOutputFrame(f, m, ts) == resolveFrom(f, m, SortMarkers(ts), 1, 0)

-----------------------------------------------------------------------------
(* The scenario: the operations a scenario function issues.  An operation is a     *)
(* record; an option the call leaves out is a field the record does not have.  The *)
(* narration text of the call at position i of the scenario is i.                  *)

ActionNames == {"navigate", "click", "fill", "hover", "press"}

\* navigate and press act without moving the cursor
DirectActions == {"navigate", "press"}

WaitDurations == {50}

SlideConfigs == {[duration |-> 20], [duration |-> 50], [narrate |-> TRUE]}

TransitionOptions ==
    {[op |-> "transition"],
     [op |-> "transition", duration |-> [kind |-> "number", ms |-> 20]],
     [op |-> "transition", type |-> "wipe", duration |-> [kind |-> "number", ms |-> 20]],
     [op |-> "transition", duration |-> [kind |-> "number", ms |-> 0]],
     [op |-> "transition", duration |-> [kind |-> "number", ms |-> -20]],
     [op |-> "transition", duration |-> [kind |-> "Infinity"]],
     [op |-> "transition", duration |-> [kind |-> "NaN"]]}

Operations ==
    [op : ActionNames] \cup [op : ActionNames, narration : {TRUE}]
        \cup [op : {"wait"}, ms : WaitDurations]
        \cup {[op |-> "narrate"]}
        \cup {[op |-> "scene"]} \cup [op : {"scene"}, slide : SlideConfigs]
        \cup TransitionOptions

RECURSIVE ScenariosOfLen(_)
ScenariosOfLen(n) ==
    IF n = 0 THEN {<<>>}
    ELSE {Append(s, o) : s \in ScenariosOfLen(n - 1), o \in Operations}

Scenarios == UNION {ScenariosOfLen(n) : n \in 0..MaxOps}

-----------------------------------------------------------------------------
(* runtime/narration-preprocess.js *)

\* what the stub `sw` of extractNarrations does with one call
StubCollects(o) ==
    CASE o.op \in ActionNames -> "narration" \in DOMAIN o
      [] o.op = "narrate" -> TRUE
      [] o.op = "scene" -> "slide" \in DOMAIN o /\ "narrate" \in DOMAIN o.slide
      [] OTHER -> FALSE

RECURSIVE extractNarrationsFrom(_, _)
extractNarrationsFrom(s, i) ==
    IF i > Len(s) THEN <<>>
    ELSE (IF StubCollects(s[i]) THEN <<i>> ELSE <<>>) \o extractNarrationsFrom(s, i + 1)

extractNarrations(s) == extractNarrationsFrom(s, 1)

validateNarrationCountLenient(pregeneratedCount, consumed) == consumed <= pregeneratedCount

\* TRUE when validateNarrationCount returns, FALSE when it throws
validateNarrationCount(pregeneratedCount, consumed) == pregeneratedCount = consumed

-----------------------------------------------------------------------------
(* commands/compose.js: preprocessing steps *)

AudioPath == "narration-full.wav"

SegmentDurations == {20, 50}

pregeneratedOfAllAudio(segs) ==
    [i \in 1..Len(segs) |->
        [text |-> segs[i].text, durationMs |-> segs[i].durationMs,
         audioFile |-> AudioPath]]

\* narrationResult.segments.map((seg, i) => ...): only index 0 carries the audio file
pregeneratedOf(segs) ==
    [i \in 1..Len(segs) |->
        [text |-> segs[i].text, durationMs |-> segs[i].durationMs,
         audioFile |-> IF i = 1 THEN AudioPath ELSE Null]]

\* 2. EXTRACT, skipped with --no-voiceover.  A throw of extractNarrations or of the
\* script write is caught and the pipeline goes on; a missing API key exits with 1
ExtractNarrations ==
    /\ pc = "extract"
    /\ IF ~voiceover
       THEN pc' = "record" /\ UNCHANGED <<narrations, failedSteps, error>>
       ELSE \/ /\ narrations' = extractNarrations(scenario)
               /\ \/ /\ pc' = IF Len(narrations') > 0 THEN "tts" ELSE "record"
                     /\ UNCHANGED <<failedSteps, error>>
                  \/ /\ Len(narrations') > 0
                     /\ failedSteps' = failedSteps \cup {"tts"}
                     /\ pc' = "exit1"
                     /\ error' = "MissingApiKey"
            \/ /\ failedSteps' = failedSteps \cup {"extract"}
               /\ pc' = "record"
               /\ UNCHANGED <<narrations, error>>
    /\ UNCHANGED <<scenario, pregenerated, voiceover>>
    /\ UNCHANGED <<loopVars, runnerVars, timelineVars, renderVars, pureVars>>

\* 3. + 4. generateFullNarration returns one segment per text, or throws: the tts step
\* is marked failed and narrationResult is null; then the pregenerated array is built
GenerateNarration ==
    /\ pc = "tts"
    /\ \/ /\ \E durations \in [1..Len(narrations) -> SegmentDurations] :
                pregenerated' = pregeneratedOf(
                    [i \in 1..Len(narrations) |->
                        [text |-> narrations[i], durationMs |-> durations[i]]])
          /\ UNCHANGED failedSteps
       \/ /\ pregenerated' = <<>>
          /\ failedSteps' = failedSteps \cup {"tts"}
    /\ pc' = "record"
    /\ UNCHANGED <<scenario, narrations, error, voiceover>>
    /\ UNCHANGED <<loopVars, runnerVars, timelineVars, renderVars, pureVars>>

-----------------------------------------------------------------------------
(* runtime/timeline-collector.ts: TimelineCollector and the recording context *)

FPS == 30
DEFAULT_SLIDE_DURATION_MS == 2000
DefaultTransitionMs == 500

\* 1000 / 30
FRAME_INTERVAL_MS == [num |-> 1000, den |-> 30]

msToFrames(ms) == CeilDiv(ms * FPS, 1000)

currentTimeMs(v) == FracScale(v, FRAME_INTERVAL_MS)

emitFront(evts, event) == <<event @@ [id |-> Len(evts) + 1]>> \o evts

\* TimelineCollector.emit: no caller passes an id, so the id is the next counter value
emit(evts, event) == Append(evts, event @@ [id |-> Len(evts) + 1])

FrameEntry(file) == [type |-> "frame", file |-> file]

addHold(m, file, count) ==
    IF count <= 0 THEN m ELSE Append(m, [type |-> "hold", file |-> file, count |-> count])

\* a clock that counts a hold as one frame
addHoldClockOne(v, count) == IF count <= 0 THEN v ELSE v + 1

\* addHold: `virtualFrameIndex += count`
addHoldClock(v, count) == IF count <= 0 THEN v ELSE v + count

\* `if (holdFrames > 1) ctx.addHold(file, holdFrames - 1)` after captureOneFrame
ManifestWithHold(m, file, holdFrames) ==
    IF holdFrames > 1 THEN addHold(Append(m, FrameEntry(file)), file, holdFrames - 1)
    ELSE Append(m, FrameEntry(file))

ClockWithFullHold(v, holdFrames) ==
    IF holdFrames > 1 THEN addHoldClock(v + 1, holdFrames) ELSE v + 1

ClockWithHold(v, holdFrames) ==
    IF holdFrames > 1 THEN addHoldClock(v + 1, holdFrames - 1) ELSE v + 1

popNarrationLast(queue) ==
    [narration |-> queue[Len(queue)], rest |-> SubSeq(queue, 1, Len(queue) - 1)]

\* popNarration on a non-empty queue: narrationQueue.shift()
popNarration(queue) == [narration |-> Head(queue), rest |-> Tail(queue)]

PopMarkerKeep(ts) == ts

\* transitionMarkers.pop()
PopMarker(ts) == IF ts = <<>> THEN ts ELSE SubSeq(ts, 1, Len(ts) - 1)

\* resumeCapture, called when the frame counter stands at fc: a no-op while the loop
\* runs; otherwise runCaptureLoop runs up to its first screenshot
resumeCapture(fc) ==
    IF captureRunning
    THEN /\ frameFileCounter' = fc
         /\ UNCHANGED <<captureRunning, loopPc, loopFile, loopTicks>>
    ELSE /\ captureRunning' = TRUE
         /\ frameFileCounter' = fc + 1
         /\ loopFile' = fc + 1
         /\ loopPc' = "shot"
         /\ UNCHANGED loopTicks

\* an exception leaves runScenario; compose catches it and exits with code 1
Fail(e) == pc' = "exit1" /\ error' = e

NextOp == pc' = "ready" /\ opIndex' = opIndex + 1

CurrentOp == scenario[opIndex]

AtOp(names) == pc = "ready" /\ opIndex <= Len(scenario) /\ CurrentOp.op \in names

inputs == <<scenario, narrations, pregenerated>>

-----------------------------------------------------------------------------
(* runScenario: launch, capture loop *)

StartRecording ==
    /\ pc = "record"
    /\ \/ /\ narrationQueue' = pregenerated
          /\ resumeCapture(frameFileCounter)
          /\ pc' = "ready"
          /\ opIndex' = 1
          /\ UNCHANGED error
       \/ /\ Fail("launch")
          /\ UNCHANGED <<loopVars, narrationQueue, opIndex>>
    /\ UNCHANGED <<inputs, events, virtualFrameIndex, captureFile, narrationConsumed,
                   transitionPending, wasPending, startMs, timelineVars, renderVars, otherVars>>

\* the screenshot of the capture loop returns: the frame is pushed, the loop sleeps
LoopScreenshot ==
    /\ error = "none"
    /\ loopPc = "shot"
    /\ manifest' = Append(manifest, FrameEntry(loopFile))
    /\ virtualFrameIndex' = virtualFrameIndex + 1
    /\ loopPc' = "sleep"
    /\ UNCHANGED <<composeVars, captureRunning, loopFile, loopTicks, frameFileCounter,
                   opIndex, events, captureFile, narrationQueue, narrationConsumed,
                   transitionPending, wasPending, startMs, transitionMarkers, renderVars, otherVars>>

\* the screenshot of the capture loop throws: nothing is pushed, the loop sleeps
LoopScreenshotFails ==
    /\ error = "none"
    /\ loopPc = "shot"
    /\ loopPc' = "sleep"
    /\ UNCHANGED <<composeVars, captureRunning, loopFile, loopTicks, frameFileCounter,
                   runnerVars, timelineVars, renderVars, otherVars>>

\* the loop wakes and tests captureRunning: next iteration, or the loop returns
LoopWake ==
    /\ error = "none"
    /\ loopPc = "sleep"
    /\ IF captureRunning
       THEN /\ loopTicks < MaxLoopTicks
            /\ loopTicks' = loopTicks + 1
            /\ frameFileCounter' = frameFileCounter + 1
            /\ loopFile' = frameFileCounter + 1
            /\ loopPc' = "shot"
       ELSE /\ loopPc' = "idle"
            /\ UNCHANGED <<loopTicks, frameFileCounter, loopFile>>
    /\ UNCHANGED <<composeVars, captureRunning, runnerVars, timelineVars, renderVars, otherVars>>

-----------------------------------------------------------------------------
(* runtime/action-helpers.ts: narration and the five actions *)

NarrationEvent(ts, narration) ==
    [type |-> "narration", timestampMs |-> ts, text |-> narration.text,
     audioDurationMs |-> narration.durationMs, audioFile |-> narration.audioFile]

CursorTargetEvent(ts) == [type |-> "cursor_target", timestampMs |-> ts]

ActionEvent(action, start, settled) ==
    [type |-> "action", action |-> action, timestampMs |-> start, settledAtMs |-> settled]

WaitEvent(ts, ms) == [type |-> "wait", timestampMs |-> ts, durationMs |-> ms]

SceneEvent(ts, o) ==
    IF "slide" \in DOMAIN o
    THEN [type |-> "scene", timestampMs |-> ts, slide |-> o.slide]
    ELSE [type |-> "scene", timestampMs |-> ts]

HasNarration(o) == o.op = "narrate" \/ (o.op \in ActionNames /\ "narration" \in DOMAIN o)

\* emitNarration up to `await ctx.pauseCapture()`: from narrate(text), or from an
\* action called with a narration option
BeginNarration ==
    /\ AtOp(ActionNames \cup {"narrate"})
    /\ HasNarration(CurrentOp)
    /\ captureRunning' = FALSE
    /\ pc' = "narration"
    /\ UNCHANGED <<inputs, error, loopPc, loopFile, loopTicks, frameFileCounter,
                   runnerVars, timelineVars, renderVars, otherVars>>

\* emitNarration once the capture loop has returned: pop, explicit frame, hold, event,
\* resume.  The text passed by the caller is not used.
EmitNarration ==
    /\ pc = "narration"
    /\ loopPc = "idle"
    /\ IF narrationQueue = <<>>
       THEN /\ Fail("NoNarration")
            /\ UNCHANGED <<loopVars, opIndex, events, virtualFrameIndex, narrationQueue,
                           narrationConsumed, manifest>>
       ELSE LET popped == popNarration(narrationQueue)
                file == frameFileCounter + 1
                holdFrames == msToFrames(popped.narration.durationMs)
                clock == ClockWithHold(virtualFrameIndex, holdFrames)
            IN /\ narrationConsumed' = narrationConsumed + 1
               /\ narrationQueue' = popped.rest
               /\ \/ /\ manifest' = ManifestWithHold(manifest, file, holdFrames)
                     /\ virtualFrameIndex' = clock
                     /\ events' = emit(events,
                                       NarrationEvent(currentTimeMs(clock), popped.narration))
                     /\ resumeCapture(file)
                     /\ IF CurrentOp.op = "narrate" THEN NextOp
                        ELSE pc' = "action" /\ UNCHANGED opIndex
                     /\ UNCHANGED error
                  \/ /\ frameFileCounter' = file
                     /\ Fail("screenshot")
                     /\ UNCHANGED <<captureRunning, loopPc, loopFile, loopTicks, opIndex,
                                    events, virtualFrameIndex, manifest>>
    /\ UNCHANGED <<inputs, captureFile, transitionPending, wasPending, startMs,
                   transitionMarkers, renderVars, otherVars>>

\* an action after its optional narration: wasPending is read; navigate and press
\* read startMs and start acting, the others start resolving the target's centre
BeginAction ==
    /\ \/ pc = "action"
       \/ AtOp(ActionNames) /\ ~HasNarration(CurrentOp)
    /\ wasPending' = transitionPending
    /\ IF CurrentOp.op \in DirectActions
       THEN startMs' = currentTimeMs(virtualFrameIndex) /\ pc' = "acting"
       ELSE pc' = "locating" /\ UNCHANGED startMs
    /\ UNCHANGED <<inputs, error, loopVars, opIndex, events, virtualFrameIndex, captureFile,
                   narrationQueue, narrationConsumed, transitionPending, timelineVars,
                   renderVars, otherVars>>

\* resolveCenter returns and moveCursorTo emits the cursor target, or the driver throws
CursorLocated ==
    /\ pc = "locating"
    /\ \/ /\ events' = emit(events, CursorTargetEvent(currentTimeMs(virtualFrameIndex)))
          /\ pc' = "moving"
          /\ UNCHANGED error
       \/ Fail("action") /\ UNCHANGED events
    /\ UNCHANGED <<inputs, loopVars, opIndex, virtualFrameIndex, captureFile, narrationQueue,
                   narrationConsumed, transitionPending, wasPending, startMs, timelineVars,
                   renderVars, otherVars>>

\* the cursor move has elapsed and the bounding box is read: startMs is read
CursorMoved ==
    /\ pc = "moving"
    /\ \/ /\ startMs' = currentTimeMs(virtualFrameIndex)
          /\ pc' = "acting"
          /\ UNCHANGED error
       \/ Fail("action") /\ UNCHANGED startMs
    /\ UNCHANGED <<inputs, loopVars, opIndex, events, virtualFrameIndex, captureFile,
                   narrationQueue, narrationConsumed, transitionPending, wasPending,
                   timelineVars, renderVars, otherVars>>

\* the driver action settles: the action event is emitted with the start time read
\* before; then resolveTransition starts its explicit capture, or capture resumes
ActionSettled ==
    /\ pc = "acting"
    /\ \/ /\ events' = emit(events, ActionEvent(CurrentOp.op, startMs,
                                                  currentTimeMs(virtualFrameIndex)))
          /\ IF wasPending /\ transitionPending
             THEN /\ frameFileCounter' = frameFileCounter + 1
                  /\ captureFile' = frameFileCounter + 1
                  /\ pc' = "resolving"
                  /\ UNCHANGED <<captureRunning, loopPc, loopFile, loopTicks, opIndex>>
             ELSE IF wasPending
             THEN NextOp /\ UNCHANGED <<loopVars, captureFile>>
             ELSE resumeCapture(frameFileCounter) /\ NextOp /\ UNCHANGED captureFile
          /\ UNCHANGED error
       \/ Fail("action") /\ UNCHANGED <<loopVars, opIndex, events, captureFile>>
    /\ UNCHANGED <<inputs, virtualFrameIndex, narrationQueue, narrationConsumed,
                   transitionPending, wasPending, startMs, timelineVars, renderVars, otherVars>>

resolveTransitionKeepPending(pending) == pending

\* resolveTransition: `ctx.transitionPending = false`
resolveTransitionPending(pending) == FALSE

\* resolveTransition after its explicit screenshot: the "after" frame is pushed, the
\* transition is no longer pending, capture resumes
TransitionResolved ==
    /\ pc = "resolving"
    /\ \/ /\ manifest' = Append(manifest, FrameEntry(captureFile))
          /\ virtualFrameIndex' = virtualFrameIndex + 1
          /\ transitionPending' = resolveTransitionPending(transitionPending)
          /\ resumeCapture(frameFileCounter)
          /\ NextOp
          /\ UNCHANGED error
       \/ /\ Fail("screenshot")
          /\ UNCHANGED <<loopVars, opIndex, virtualFrameIndex, transitionPending, manifest>>
    /\ UNCHANGED <<inputs, events, captureFile, narrationQueue, narrationConsumed, wasPending,
                   startMs, transitionMarkers, renderVars, otherVars>>

-----------------------------------------------------------------------------
(* runtime/action-helpers.ts: wait, scene, transition *)

\* wait(ms): while a transition is pending it only starts waiting; otherwise capture
\* is resumed and the wait event is emitted before the timeout
BeginWait ==
    /\ AtOp({"wait"})
    /\ IF transitionPending
       THEN /\ pc' = "wait_pending"
            /\ UNCHANGED <<loopVars, events>>
       ELSE /\ resumeCapture(frameFileCounter)
            /\ events' = emit(events,
                              WaitEvent(currentTimeMs(virtualFrameIndex), CurrentOp.ms))
            /\ pc' = "waiting"
    /\ UNCHANGED <<inputs, error, opIndex, virtualFrameIndex, captureFile, narrationQueue,
                   narrationConsumed, transitionPending, wasPending, startMs, timelineVars,
                   renderVars, otherVars>>

WaitElapsed ==
    /\ pc = "waiting"
    /\ NextOp
    /\ UNCHANGED <<inputs, error, loopVars, events, virtualFrameIndex, captureFile,
                   narrationQueue, narrationConsumed, transitionPending, wasPending, startMs,
                   timelineVars, renderVars, otherVars>>

\* the timeout of a wait during a pending transition has elapsed: captureOneFrame
\* takes its file name and starts its screenshot
WaitPendingElapsed ==
    /\ pc = "wait_pending"
    /\ frameFileCounter' = frameFileCounter + 1
    /\ captureFile' = frameFileCounter + 1
    /\ pc' = "wait_shot"
    /\ UNCHANGED <<inputs, error, captureRunning, loopPc, loopFile, loopTicks, opIndex,
                   events, virtualFrameIndex, narrationQueue, narrationConsumed,
                   transitionPending, wasPending, startMs, timelineVars, renderVars, otherVars>>

\* the explicit frame of a wait during a pending transition, its hold and its event
WaitPendingCaptured ==
    /\ pc = "wait_shot"
    /\ \/ LET holdFrames == msToFrames(CurrentOp.ms)
              clock == ClockWithHold(virtualFrameIndex, holdFrames)
          IN /\ manifest' = ManifestWithHold(manifest, captureFile, holdFrames)
             /\ virtualFrameIndex' = clock
             /\ events' = emit(events, WaitEvent(currentTimeMs(clock), CurrentOp.ms))
             /\ NextOp
             /\ UNCHANGED error
       \/ Fail("screenshot") /\ UNCHANGED <<opIndex, events, virtualFrameIndex, manifest>>
    /\ UNCHANGED <<inputs, loopVars, captureFile, narrationQueue, narrationConsumed,
                   transitionPending, wasPending, startMs, transitionMarkers, renderVars, otherVars>>

\* scene without a slide: only the scene event
SceneMarker ==
    /\ AtOp({"scene"})
    /\ "slide" \notin DOMAIN CurrentOp
    /\ events' = emit(events, SceneEvent(currentTimeMs(virtualFrameIndex), CurrentOp))
    /\ NextOp
    /\ UNCHANGED <<inputs, error, loopVars, virtualFrameIndex, captureFile, narrationQueue,
                   narrationConsumed, transitionPending, wasPending, startMs, timelineVars,
                   renderVars, otherVars>>

\* scene with a slide, up to `await ctx.pauseCapture()`
BeginSlide ==
    /\ AtOp({"scene"})
    /\ "slide" \in DOMAIN CurrentOp
    /\ captureRunning' = FALSE
    /\ pc' = "scene_slide"
    /\ UNCHANGED <<inputs, error, loopPc, loopFile, loopTicks, frameFileCounter,
                   runnerVars, timelineVars, renderVars, otherVars>>

\* the slide once the capture loop has returned: overlay, explicit frame, hold, scene
\* event; a pending transition is resolved; capture stays paused
SceneSlide ==
    /\ pc = "scene_slide"
    /\ loopPc = "idle"
    /\ \/ LET slideDurationMs == Nullish(CurrentOp.slide, "duration", DEFAULT_SLIDE_DURATION_MS)
              file == frameFileCounter + 1
              holdFrames == msToFrames(slideDurationMs)
              clock == ClockWithHold(virtualFrameIndex, holdFrames)
          IN /\ frameFileCounter' = file
             /\ manifest' = ManifestWithHold(manifest, file, holdFrames)
             /\ virtualFrameIndex' = clock
             /\ events' = emit(events, SceneEvent(currentTimeMs(clock), CurrentOp))
             /\ transitionPending' = FALSE
             /\ NextOp
             /\ UNCHANGED error
       \/ /\ Fail("action")
          /\ UNCHANGED <<frameFileCounter, manifest, virtualFrameIndex, events,
                         transitionPending, opIndex>>
       \/ /\ Fail("screenshot")
          /\ frameFileCounter' = frameFileCounter + 1
          /\ UNCHANGED <<manifest, virtualFrameIndex, events, transitionPending, opIndex>>
    /\ UNCHANGED <<inputs, captureRunning, loopPc, loopFile, loopTicks, captureFile,
                   narrationQueue, narrationConsumed, wasPending, startMs,
                   transitionMarkers, renderVars, otherVars>>

TransitionDuration(o) == Nullish(o, "duration", [kind |-> "number", ms |-> DefaultTransitionMs])

InvalidDurationIfNotFinite(d) == d.kind # "number"

\* durationMs <= 0 || !Number.isFinite(durationMs)
InvalidDuration(d) == d.kind # "number" \/ d.ms <= 0

\* transition() up to `await ctx.pauseCapture()`: the duration is checked, a marker
\* still pending is removed
BeginTransition ==
    /\ AtOp({"transition"})
    /\ IF InvalidDuration(TransitionDuration(CurrentOp))
       THEN /\ Fail("InvalidArgument")
            /\ UNCHANGED <<captureRunning, transitionMarkers>>
       ELSE /\ transitionMarkers' = IF transitionPending THEN PopMarker(transitionMarkers)
                                                        ELSE transitionMarkers
            /\ captureRunning' = FALSE
            /\ pc' = "transition"
            /\ UNCHANGED error
    /\ UNCHANGED <<inputs, loopPc, loopFile, loopTicks, frameFileCounter, runnerVars,
                   manifest, renderVars, otherVars>>

afterEntryIndexOfNext(m) == Len(m)

\* afterEntryIndex: ctx.manifest.length - 1
afterEntryIndexOfTail(m) == Len(m) - 1

\* transition() once the capture loop has returned: the marker is recorded
AddTransition ==
    /\ pc = "transition"
    /\ loopPc = "idle"
    /\ transitionMarkers' = Append(transitionMarkers,
            [afterEntryIndex |-> afterEntryIndexOfTail(manifest),
             transition      |-> Nullish(CurrentOp, "type", "fade"),
             durationFrames  |-> msToFrames(TransitionDuration(CurrentOp).ms)])
    /\ transitionPending' = TRUE
    /\ NextOp
    /\ UNCHANGED <<inputs, error, loopVars, events, virtualFrameIndex, captureFile,
                   narrationQueue, narrationConsumed, wasPending, startMs, manifest,
                   renderVars, otherVars>>

-----------------------------------------------------------------------------
(* runScenario: end of the scenario, finalize; compose: count check *)

IsMonotonic(evts) ==
    \A i \in 1..(Len(evts) - 1) : FracLeq(evts[i].timestampMs, evts[i + 1].timestampMs)

\* timeline/schema: what the validator accepts, of the fields the events carry here
timelineSchema(evts, m, ts) ==
    /\ \A i \in 1..Len(evts) :
          /\ evts[i].timestampMs.num >= 0
          /\ evts[i].type = "action" => FracLeq(evts[i].timestampMs, evts[i].settledAtMs)
          /\ evts[i].type = "wait" => evts[i].durationMs > 0
          /\ (evts[i].type = "scene" /\ "slide" \in DOMAIN evts[i]
                 /\ "duration" \in DOMAIN evts[i].slide) => evts[i].slide.duration > 0
    /\ Len(m) > 0
    /\ \A i \in 1..Len(m) : m[i].type = "hold" => m[i].count > 0
    /\ \A k \in 1..Len(ts) :
          /\ \E j \in 1..Len(transitionTypes) : ts[k].transition = transitionTypes[j]
          /\ ts[k].durationFrames > 0
    /\ IsMonotonic(evts)

\* the scenario function has returned: `await pauseCapture()`
BeginEnd ==
    /\ pc = "ready"
    /\ opIndex > Len(scenario)
    /\ captureRunning' = FALSE
    /\ pc' = "ending"
    /\ UNCHANGED <<inputs, error, loopPc, loopFile, loopTicks, frameFileCounter,
                   runnerVars, timelineVars, renderVars, otherVars>>

\* once the capture loop has returned: the final frame (a failure is swallowed), a
\* trailing transition is discarded, the browser is closed, the timeline finalized
FinishRecording ==
    /\ pc = "ending"
    /\ loopPc = "idle"
    /\ frameFileCounter' = frameFileCounter + 1
    /\ \/ /\ manifest' = Append(manifest, FrameEntry(frameFileCounter + 1))
          /\ virtualFrameIndex' = virtualFrameIndex + 1
       \/ UNCHANGED <<manifest, virtualFrameIndex>>
    /\ transitionMarkers' = IF transitionPending THEN PopMarker(transitionMarkers)
                                                ELSE transitionMarkers
    /\ transitionPending' = FALSE
    /\ IF timelineSchema(events, manifest', transitionMarkers')
       THEN pc' = "recorded" /\ UNCHANGED error
       ELSE Fail("InvalidTimeline")
    /\ UNCHANGED <<inputs, captureRunning, loopPc, loopFile, loopTicks, opIndex, events,
                   captureFile, narrationQueue, narrationConsumed, wasPending, startMs,
                   renderVars, otherVars>>

\* compose, after runScenario returned: the count check, only when there are
\* pre-generated segments
CheckNarrationCount ==
    /\ pc = "recorded"
    /\ IF Len(pregenerated) > 0
          /\ ~validateNarrationCount(Len(pregenerated), narrationConsumed)
       THEN Fail("NarrationMismatch")
       ELSE pc' = "render" /\ UNCHANGED error
    /\ UNCHANGED <<inputs, loopVars, runnerVars, timelineVars, renderVars, otherVars>>

-----------------------------------------------------------------------------
(* The renderer applied to bounded timelines *)

NoResolution == [type |-> "none"]

\* entry i of an input manifest is backed by image file i
EntryShapes(i) ==
    {[type |-> "frame", file |-> i]}
        \cup {[type |-> "hold", file |-> i, count |-> c] : c \in 1..MaxCount}

RECURSIVE ManifestsOfLen(_)
ManifestsOfLen(n) ==
    IF n = 0 THEN {<<>>}
    ELSE {Append(m, e) : m \in ManifestsOfLen(n - 1), e \in EntryShapes(n)}

Manifests == UNION {ManifestsOfLen(n) : n \in 1..MaxEntries}

OverrideBase == 100

\* a marker as recorded, then with one of its optional fields set
MarkerVariants(b) ==
    {b}
      \cup {[afterEntryIndex |-> b.afterEntryIndex, transition |-> b.transition,
             durationFrames |-> b.durationFrames, consumedFrames |-> c] : c \in 1..MaxConsumed}
      \cup {[afterEntryIndex |-> b.afterEntryIndex, transition |-> b.transition,
             durationFrames |-> b.durationFrames, beforeFile |-> OverrideBase + 1],
            [afterEntryIndex |-> b.afterEntryIndex, transition |-> b.transition,
             durationFrames |-> b.durationFrames, afterFile |-> OverrideBase + 2]}

\* the markers that may stand at position k of a list: the k-th marker carries the
\* k-th transition type, so that a resolution tells which marker produced it
MarkersFor(len, k) ==
    UNION {MarkerVariants(b) :
             b \in [afterEntryIndex : 0..(len - 1), transition : {transitionTypes[k]},
                    durationFrames : 1..MaxDuration]}

\* marker lists of at most n markers over a manifest of len entries
RECURSIVE MarkerLists(_, _)
MarkerLists(len, n) ==
    IF n = 0 THEN {<<>>}
    ELSE MarkerLists(len, n - 1)
            \cup {Append(ts, t) :
                    ts \in {x \in MarkerLists(len, n - 1) : Len(x) = n - 1},
                    t \in MarkersFor(len, n)}

\* the runner records markers in non-decreasing afterEntryIndex order
IsSortedMarkers(ts) ==
    \A i \in 1..(Len(ts) - 1) : ts[i].afterEntryIndex <= ts[i + 1].afterEntryIndex

MinDurationInFrames == 30

DefaultFps == 11

\* remapEventsForOutput for one event: the shift, in frames of 1000 / fps ms each,
\* summed over the markers whose last source frame lies before the event
RECURSIVE remapOffsetFrames(_, _, _, _, _)
remapOffsetFrames(event, m, sorted, k, fps) ==
    IF k > Len(sorted) THEN 0
    ELSE LET t == sorted[k]
             sourceS == lastSourceFrameOfEntry(m, t.afterEntryIndex)
             transitionSourceMs == [num |-> sourceS * 1000, den |-> fps]
         IN (IF FracLess(transitionSourceMs, event.timestampMs)
             THEN t.durationFrames - Nullish(t, "consumedFrames", 1) ELSE 0)
            + remapOffsetFrames(event, m, sorted, k + 1, fps)

remapEventsForOutput(evts, m, ts, fps) ==
    [i \in 1..Len(evts) |->
        LET offsetFrames == remapOffsetFrames(evts[i], m, SortMarkers(ts), 1, fps)
        IN IF offsetFrames = 0 THEN evts[i]
           ELSE [evts[i] EXCEPT !.timestampMs =
                    FracAdd(evts[i].timestampMs, [num |-> offsetFrames * 1000, den |-> fps])]]

\* Math.round((n.timestampMs / 1000) * fps)
SequenceFrom(n, fps) == RoundDiv(n.timestampMs.num * fps, n.timestampMs.den * 1000)

NarrationTrackUnfiltered(narrationEvents, fps) ==
    [i \in 1..Len(narrationEvents) |->
        [from |-> SequenceFrom(narrationEvents[i], fps), src |-> narrationEvents[i].audioFile]]

\* NarrationTrack: one <Audio> sequence per narration with an audio file
NarrationTrack(narrationEvents, fps) ==
    LET withAudio == SelectSeq(narrationEvents, LAMBDA n : Truthy(n.audioFile))
    IN [i \in 1..Len(withAudio) |->
           [from |-> SequenceFrom(withAudio[i], fps), src |-> withAudio[i].audioFile]]

IsNarration(e) == e.type = "narration"

\* a marker whose afterEntryIndex is no index of the manifest makes
\* lastSourceFrameOfEntry read a field of undefined: the render throws
RenderThrows(m, ts) ==
    \E k \in 1..Len(ts) : ts[k].afterEntryIndex < 0 \/ ts[k].afterEntryIndex >= Len(m)

\* renderDemoVideo: the composition length is fixed before any frame is rendered;
\* DemoVideo remaps the events and hands the narrations to NarrationTrack
SelectComposition ==
    /\ pc = "render"
    /\ IF RenderThrows(manifest, transitionMarkers)
       THEN Fail("render") /\ UNCHANGED <<durationInFrames, audioTracks>>
       ELSE /\ durationInFrames' =
                   Max(MinDurationInFrames, totalOutputFrames(manifest, transitionMarkers))
            /\ audioTracks' = NarrationTrack(
                   SelectSeq(remapEventsForOutput(events, manifest, transitionMarkers, DefaultFps),
                             IsNarration),
                   DefaultFps)
            /\ pc' = "done"
            /\ UNCHANGED error
    /\ UNCHANGED <<inputs, loopVars, runnerVars, timelineVars, outputFrame, resolution,
                   showChrome, showCursor, pipeVars, pureVars>>

\* timeline.metadata.fps: the rate the runner recorded at
metadataFps == FPS

IsScene(e) == e.type = "scene"

\* duringSlide: some slide scene has started at (frame / fps) * 1000 and the first
\* scene of the list with a later timestamp, if there is one, has not
duringSlide(f, evts, fps) ==
    LET currentMs == [num |-> f * 1000, den |-> fps]
        allScenes == SelectSeq(evts, IsScene)
        later(s) == {j \in 1..Len(allScenes) :
                        FracLess(s.timestampMs, allScenes[j].timestampMs)}
        nextScene(s) == allScenes[CHOOSE j \in later(s) : \A k \in later(s) : j <= k]
    IN \E i \in 1..Len(allScenes) :
          /\ "slide" \in DOMAIN allScenes[i]
          /\ ~FracLess(currentMs, allScenes[i].timestampMs)
          /\ later(allScenes[i]) = {}
                \/ FracLess(currentMs, nextScene(allScenes[i]).timestampMs)

\* DemoVideo rendered for the next frame of the composition, frames taken in order
\* from 0: the frame is resolved, the events are remapped, the chrome and the cursor
\* are drawn or not
ResolveFrame ==
    /\ pc = "done"
    /\ LET f == IF resolution = NoResolution THEN 0 ELSE outputFrame + 1
           remappedEvents ==
               remapEventsForOutput(events, manifest, transitionMarkers, metadataFps)
       IN /\ f <= Min(MaxOutputFrame, durationInFrames - 1)
          /\ outputFrame' = f
          /\ resolution' = resolveOutputFrame(f, manifest, transitionMarkers)
          /\ showChrome' = (~duringSlide(f, remappedEvents, metadataFps)
                               /\ resolution'.type # "transition")
          /\ showCursor' = (resolution'.type # "transition"
                               /\ ~duringSlide(f, remappedEvents, metadataFps))
    /\ UNCHANGED <<composeVars, loopVars, runnerVars, timelineVars, durationInFrames,
                   audioTracks, pipeVars, pureVars>>

-----------------------------------------------------------------------------
(* composition/time-remap.ts: times are whole numbers of ms *)

\* Array.prototype.sort with (a, b) => a.timestampMs - b.timestampMs is stable: an
\* element is placed after the elements that do not compare greater
RECURSIVE InsertByTimestamp(_, _)
InsertByTimestamp(sorted, ss) ==
    IF sorted = <<>> THEN <<ss>>
    ELSE IF Head(sorted).timestampMs <= ss.timestampMs
         THEN <<Head(sorted)>> \o InsertByTimestamp(Tail(sorted), ss)
         ELSE <<ss>> \o sorted

RECURSIVE SortByTimestamp(_)
SortByTimestamp(slides) ==
    IF slides = <<>> THEN <<>>
    ELSE InsertByTimestamp(SortByTimestamp(SubSeq(slides, 1, Len(slides) - 1)),
                           slides[Len(slides)])

RECURSIVE clampDeadZonesFrom(_, _, _)
clampDeadZonesFrom(t, slides, i) ==
    IF i > Len(slides) THEN t
    ELSE LET ss == slides[i]
         IN IF ss.deadAfterMs > 0 /\ t >= ss.timestampMs /\ t < ss.timestampMs + ss.deadAfterMs
            THEN ss.timestampMs + ss.deadAfterMs
            ELSE clampDeadZonesFrom(t, slides, i + 1)

clampDeadZones(t, slides) == clampDeadZonesFrom(t, slides, 1)

AtOrBeforeSlideEnd(t, slideEnd) == t <= slideEnd

\* `if (outputTimeMs < slideEnd)`
BeforeSlideEnd(t, slideEnd) == t < slideEnd

RECURSIVE sourceTimeFrom(_, _, _, _)
sourceTimeFrom(t, sorted, i, accumulated) ==
    IF i > Len(sorted) THEN clampDeadZones(t - accumulated, sorted)
    ELSE LET ss == sorted[i]
             slideStart == ss.timestampMs + accumulated
             slideEnd == slideStart + ss.slideDurationMs
         IN IF t < slideStart THEN clampDeadZones(t - accumulated, sorted)
            ELSE IF BeforeSlideEnd(t, slideEnd) THEN ss.timestampMs
            ELSE sourceTimeFrom(t, sorted, i + 1, accumulated + ss.slideDurationMs)

sourceTimeMs(t, slides) == sourceTimeFrom(t, SortByTimestamp(slides), 1, 0)

AfterSlide(event, ss) == event.timestampMs > ss.timestampMs

\* `if (event.timestampMs >= ss.timestampMs)`
AtOrAfterSlide(event, ss) == event.timestampMs >= ss.timestampMs

\* the loop over the sorted slides, left at the first slide that lies after the event
RECURSIVE remapOffset(_, _, _)
remapOffset(event, sorted, i) ==
    IF i > Len(sorted) THEN 0
    ELSE IF AtOrAfterSlide(event, sorted[i])
         THEN sorted[i].slideDurationMs + remapOffset(event, sorted, i + 1)
         ELSE 0

\* events.map(event => ({ ...event, timestampMs: event.timestampMs + offset }))
remapEvents(evts, slides) ==
    [i \in 1..Len(evts) |->
        [evts[i] EXCEPT !.timestampMs = @ + remapOffset(evts[i], SortByTimestamp(slides), 1)]]

\* resolved slide scenes with a dead zone of at most maxDead ms
ResolvedSlideScenes(maxDead) ==
    [timestampMs : 0..MaxSceneTime, slideDurationMs : 1..MaxSlideDuration,
     deadAfterMs : 0..maxDead]

RECURSIVE SlideSceneListsOfLen(_, _)
SlideSceneListsOfLen(n, maxDead) ==
    IF n = 0 THEN {<<>>}
    ELSE {Append(l, ss) : l \in SlideSceneListsOfLen(n - 1, maxDead),
                          ss \in ResolvedSlideScenes(maxDead)}

SlideSceneLists(maxDead) == UNION {SlideSceneListsOfLen(n, maxDead) : n \in 0..MaxSlides}

\* the event at position i of a list has id i
RECURSIVE EventListsOfLen(_)
EventListsOfLen(n) ==
    IF n = 0 THEN {<<>>}
    ELSE {Append(l, [type |-> "action", id |-> n, timestampMs |-> t]) :
             l \in EventListsOfLen(n - 1), t \in 0..MaxEventTime}

\* the scene events the slide scenes were resolved from, in the same order
sceneEventsOf(slides) ==
    [i \in 1..Len(slides) |->
        [type |-> "scene", timestampMs |-> slides[i].timestampMs,
         slide |-> [duration |-> slides[i].slideDurationMs]]]

\* the loop of computeSlideSegments over the scenes in the order given: a scene
\* without a slide is skipped
RECURSIVE computeSlideSegmentsFrom(_, _, _)
computeSlideSegmentsFrom(scenes, i, accumulated) ==
    IF i > Len(scenes) THEN <<>>
    ELSE IF "slide" \notin DOMAIN scenes[i]
         THEN computeSlideSegmentsFrom(scenes, i + 1, accumulated)
    ELSE LET slideDurationMs == Nullish(scenes[i].slide, "duration", DEFAULT_SLIDE_DURATION_MS)
             slideStartMs == scenes[i].timestampMs + accumulated
         IN <<[slideStartMs |-> slideStartMs, slideEndMs |-> slideStartMs + slideDurationMs,
               slideDurationMs |-> slideDurationMs]>>
            \o computeSlideSegmentsFrom(scenes, i + 1, accumulated + slideDurationMs)

\* every slide window placed at its scene timestamp, earlier slides not accumulated
computeSlideSegmentsUnshifted(scenes) ==
    [i \in 1..Len(scenes) |->
        [slideStartMs |-> scenes[i].timestampMs,
         slideEndMs |-> scenes[i].timestampMs + scenes[i].slide.duration,
         slideDurationMs |-> scenes[i].slide.duration]]

computeSlideSegments(scenes) == computeSlideSegmentsFrom(scenes, 1, 0)

\* nothing computed yet
NoTime == -1

SourceTime ==
    /\ pc = "remap"
    /\ \E t \in 0..MaxOutputTime :
          /\ outputTimeMs' = t
          /\ sourceTime' = sourceTimeMs(t, slideScenes)
    /\ UNCHANGED <<composeVars, loopVars, runnerVars, timelineVars, renderVars, pipeVars,
                   slideScenes, remapIn, remapOut, segmentVars, captureVars>>

RemapEvents ==
    /\ pc = "remap"
    /\ remapOut' = remapEvents(remapIn, slideScenes)
    /\ UNCHANGED <<composeVars, loopVars, runnerVars, timelineVars, renderVars, pipeVars,
                   slideScenes, outputTimeMs, sourceTime, remapIn, segmentVars,
                   captureVars>>

-----------------------------------------------------------------------------
(* runtime/narration-preprocess.js, mapSilencesToSegments: a text is its position in
   the list and its length in characters; times are JavaScript numbers of ms *)

Num(n) == [kind |-> "number", ms |-> n]

\* 0 / 0 and everything computed from it
NaN == [kind |-> "NaN"]

NumAdd(a, b) == IF a.kind = "NaN" \/ b.kind = "NaN" THEN NaN ELSE Num(a.ms + b.ms)

NumSub(a, b) == IF a.kind = "NaN" \/ b.kind = "NaN" THEN NaN ELSE Num(a.ms - b.ms)

\* texts.reduce((sum, t) => sum + t.length, 0)
RECURSIVE totalChars(_)
totalChars(ts) == IF ts = <<>> THEN 0 ELSE Head(ts).length + totalChars(Tail(ts))

\* Math.round((texts[i].length / totalChars) * totalDurationMs); a tie of the exact
\* quotient needs a power-of-two totalChars, for which the floating-point product
\* is exact
proportionalDurationMs(text, chars, total) ==
    IF chars = 0 THEN NaN ELSE Num(RoundDiv(text.length * total, chars))

\* cursor before the i-th text of the fallback loop
RECURSIVE fallbackCursor(_, _, _)
fallbackCursor(ts, i, total) ==
    IF i <= 1 THEN Num(0)
    ELSE NumAdd(fallbackCursor(ts, i - 1, total),
                proportionalDurationMs(ts[i - 1], totalChars(ts), total))

\* the fallback loop as written, the last segment left as the loop pushed it
proportionalSegmentsUnadjusted(ts, total) ==
    [i \in 1..Len(ts) |->
        LET cursor == fallbackCursor(ts, i, total)
            durationMs == proportionalDurationMs(ts[i], totalChars(ts), total)
        IN [index |-> i - 1, text |-> ts[i], startMs |-> cursor,
            endMs |-> NumAdd(cursor, durationMs), durationMs |-> durationMs]]

\* the fallback: the loop, then the last segment is made to end at totalDurationMs
proportionalSegments(ts, total) ==
    LET segs == proportionalSegmentsUnadjusted(ts, total)
        last == segs[Len(segs)]
    IN [segs EXCEPT ![Len(segs)] =
            [last EXCEPT !.endMs = Num(total),
                         !.durationMs = NumSub(Num(total), last.startMs)]]

\* .map((s, idx) => ({ ...s, duration: s.endMs - s.startMs, idx }))
withDuration(ss) ==
    [i \in 1..Len(ss) |->
        [startMs |-> ss[i].startMs, endMs |-> ss[i].endMs,
         duration |-> ss[i].endMs - ss[i].startMs, idx |-> i - 1]]

\* .sort((a, b) => b.duration - a.duration): stable, longest first
RECURSIVE InsertByDuration(_, _)
InsertByDuration(sorted, s) ==
    IF sorted = <<>> THEN <<s>>
    ELSE IF Head(sorted).duration >= s.duration
         THEN <<Head(sorted)>> \o InsertByDuration(Tail(sorted), s)
         ELSE <<s>> \o sorted

RECURSIVE SortByDuration(_)
SortByDuration(ss) ==
    IF ss = <<>> THEN <<>>
    ELSE InsertByDuration(SortByDuration(SubSeq(ss, 1, Len(ss) - 1)), ss[Len(ss)])

\* the ranked silences left in the order of their length
KeepRanked(ss) == ss

\* .sort((a, b) => a.startMs - b.startMs): stable
RECURSIVE InsertByStart(_, _)
InsertByStart(sorted, s) ==
    IF sorted = <<>> THEN <<s>>
    ELSE IF Head(sorted).startMs <= s.startMs
         THEN <<Head(sorted)>> \o InsertByStart(Tail(sorted), s)
         ELSE <<s>> \o sorted

RECURSIVE SortByStart(_)
SortByStart(ss) ==
    IF ss = <<>> THEN <<>>
    ELSE InsertByStart(SortByStart(SubSeq(ss, 1, Len(ss) - 1)), ss[Len(ss)])

\* the N-1 longest silences in the order of their position
rankedSilences(ss, numBoundaries) ==
    SortByStart(SubSeq(SortByDuration(withDuration(ss)), 1, numBoundaries))

\* Math.round((s.startMs + s.endMs) / 2)
splitPoint(s) == RoundDiv(s.startMs + s.endMs, 2)

\* the segments built from the boundaries
boundarySegments(ts, ss, total) ==
    LET ranked == rankedSilences(ss, Len(ts) - 1)
        endMsOf(i) == IF i <= Len(ranked) THEN splitPoint(ranked[i]) ELSE total
        cursorOf(i) == IF i = 1 THEN 0 ELSE endMsOf(i - 1)
    IN [i \in 1..Len(ts) |->
           [index |-> i - 1, text |-> ts[i], startMs |-> Num(cursorOf(i)),
            endMs |-> Num(endMsOf(i)), durationMs |-> Num(endMsOf(i) - cursorOf(i))]]

mapSilencesToSegments(ts, ss, total) ==
    IF Len(ss) < Len(ts) - 1 THEN proportionalSegments(ts, total)
    ELSE boundarySegments(ts, ss, total)

\* the texts extractNarrations can collect: narrate(text) pushes any string, the
\* empty one included
TextLists ==
    UNION {[1..n -> 0..MaxTextLen] : n \in 1..MaxTexts}

textsOf(lengths) == [i \in 1..Len(lengths) |-> [text |-> i, length |-> lengths[i]]]

\* the silences detectSilences reads from ffmpeg within an audio of the given
\* length: each one ends after it started, the next one starts no earlier
RECURSIVE SilenceListsFrom(_, _, _)
SilenceListsFrom(from, total, n) ==
    IF n = 0 THEN {<<>>}
    ELSE {<<>>} \cup
         UNION {{<<[startMs |-> a, endMs |-> b]>> \o rest :
                    rest \in SilenceListsFrom(b, total, n - 1)} :
                <<a, b>> \in {p \in (from..total) \X (from..total) : p[1] < p[2]}}

\* generateFullNarration: the silences of the synthesised audio are mapped to segments
MapSilences ==
    /\ pc = "segments"
    /\ segments = <<>>
    /\ segments' = mapSilencesToSegments(texts, silences, totalDurationMs)
    /\ UNCHANGED <<composeVars, loopVars, runnerVars, timelineVars, renderVars, pipeVars,
                   remapVars, texts, silences, totalDurationMs, captureVars>>

\* the state before the pipeline starts, but for the scenario and the timeline
InitRest ==
    /\ narrations = <<>>
    /\ pregenerated = <<>>
    /\ error = "none"
    /\ opIndex = 1
    /\ events = <<>>
    /\ virtualFrameIndex = 0
    /\ frameFileCounter = 0
    /\ captureRunning = FALSE
    /\ loopPc = "idle"
    /\ loopFile = 0
    /\ loopTicks = 0
    /\ captureFile = 0
    /\ lastFrameHash = 0
    /\ lastFrameFile = 0
    /\ loopBuf = 0
    /\ pendingWrite = 0
    /\ diskWrites = <<>>
    /\ dedupedFrames = 0
    /\ captureFailures = 0
    /\ waitMs = 0
    /\ targetFrame = 0
    /\ narrationQueue = <<>>
    /\ narrationConsumed = 0
    /\ transitionPending = FALSE
    /\ wasPending = FALSE
    /\ startMs = currentTimeMs(0)
    /\ durationInFrames = 0
    /\ audioTracks = <<>>
    /\ outputFrame = 0
    /\ resolution = NoResolution
    /\ showChrome = FALSE
    /\ showCursor = FALSE
    /\ failedSteps = {}
    /\ outputTimeMs = 0
    /\ sourceTime = NoTime
    /\ remapOut = <<>>
    /\ segments = <<>>

NoRemapInputs == slideScenes = <<>> /\ remapIn = <<>>

NoSegmentInputs == texts = <<>> /\ silences = <<>> /\ totalDurationMs = 0

\* the pipeline is not run: no scenario, no timeline
NoPipeline ==
    /\ scenario = <<>>
    /\ manifest = <<>>
    /\ transitionMarkers = <<>>
    /\ voiceover = TRUE

\* sourceTimeMs handed slide scenes of the bounded shapes
InitRemap ==
    /\ pc = "remap"
    /\ slideScenes \in SlideSceneLists(MaxDeadAfter)
    /\ remapIn = <<>>
    /\ NoPipeline
    /\ NoSegmentInputs
    /\ InitRest

NextRemap == SourceTime

SpecRemap == InitRemap /\ [][NextRemap]_vars

\* remapEvents handed events and slide scenes as resolveSlideScenes(scenes) returns
\* them: without dead zones
InitRemapEvents ==
    /\ pc = "remap"
    /\ slideScenes \in SlideSceneLists(0)
    /\ remapIn \in UNION {EventListsOfLen(n) : n \in 0..MaxEvents}
    /\ NoPipeline
    /\ NoSegmentInputs
    /\ InitRest

NextRemapEvents == RemapEvents

SpecRemapEvents == InitRemapEvents /\ [][NextRemapEvents]_vars

\* mapSilencesToSegments handed texts and silences of the bounded shapes
InitSegments ==
    /\ pc = "segments"
    /\ texts \in {textsOf(l) : l \in TextLists}
    /\ totalDurationMs \in 0..MaxAudioMs
    /\ silences \in SilenceListsFrom(0, totalDurationMs, MaxSilences)
    /\ NoPipeline
    /\ NoRemapInputs
    /\ InitRest

NextSegments == MapSilences

SpecSegments == InitSegments /\ [][NextSegments]_vars

\* the renderer handed a timeline of the bounded shapes
InitResolve ==
    /\ scenario = <<>>
    /\ pc = "render"
    /\ manifest \in Manifests
    /\ transitionMarkers \in {ts \in MarkerLists(Len(manifest), MaxMarkers) : IsSortedMarkers(ts)}
    /\ voiceover = TRUE
    /\ NoRemapInputs
    /\ NoSegmentInputs
    /\ InitRest

NextResolve == SelectComposition \/ ResolveFrame

SpecResolve == InitResolve /\ [][NextResolve]_vars

\* compose started on a scenario
Init ==
    /\ scenario \in Scenarios
    /\ pc = "extract"
    /\ manifest = <<>>
    /\ transitionMarkers = <<>>
    /\ voiceover \in BOOLEAN
    /\ NoRemapInputs
    /\ NoSegmentInputs
    /\ InitRest

Next ==
    \/ ExtractNarrations \/ GenerateNarration \/ StartRecording
    \/ LoopScreenshot \/ LoopScreenshotFails \/ LoopWake
    \/ BeginNarration \/ EmitNarration
    \/ BeginAction \/ CursorLocated \/ CursorMoved \/ ActionSettled \/ TransitionResolved
    \/ BeginWait \/ WaitElapsed \/ WaitPendingElapsed \/ WaitPendingCaptured
    \/ SceneMarker \/ BeginSlide \/ SceneSlide
    \/ BeginTransition \/ AddTransition
    \/ BeginEnd \/ FinishRecording \/ CheckNarrationCount
    \/ SelectComposition \/ ResolveFrame

Spec == Init /\ [][Next]_vars

-----------------------------------------------------------------------------
(* runtime/instrumented-page.js: the runner with frame deduplication.  The scenario
   reaches the capture loop through ctx.ensureCaptureStarted and ctx.waitForDuration;
   pauseCapture is called by runScenario alone, once the scenario has returned. *)

\* `const fps = opts.fps ?? 16`
CaptureFps == 16

\* the arguments of waitForDuration, in ms: none, just over one frame, two frames
CaptureWaitDurations == {0, 63, 125}

\* Math.floor in place of Math.ceil
framesNeededFloor(ms) == (ms * CaptureFps) \div 1000

\* Math.ceil(ms / FRAME_INTERVAL_MS), FRAME_INTERVAL_MS = 1000 / 16 = 62.5
framesNeeded(ms) == CeilDiv(ms * CaptureFps, 1000)

\* a pauseCapture that does not wait for the loop
pendingScreenshotUnawaited == TRUE

\* `await pendingScreenshot` has returned: runCaptureLoop is past its last statement
pendingScreenshotSettled == loopPc = "idle"

\* resumeCapture: `if (!captureRunning) pendingScreenshot = runCaptureLoop()`
runCaptureLoopStarts == ~captureRunning

CaptureCall == pc = "cap_ready" /\ opIndex <= MaxCalls

\* ctx.ensureCaptureStarted(): runCaptureLoop runs up to its first screenshot
ensureCaptureStarted ==
    /\ CaptureCall
    /\ opIndex' = opIndex + 1
    /\ IF runCaptureLoopStarts
       THEN captureRunning' = TRUE /\ loopPc' = "shot"
       ELSE UNCHANGED <<captureRunning, loopPc>>
    /\ UNCHANGED <<composeVars, loopFile, loopTicks, frameFileCounter, events,
                   virtualFrameIndex, captureFile, narrationQueue, narrationConsumed,
                   transitionPending, wasPending, startMs, timelineVars, renderVars,
                   pipeVars, remapVars, segmentVars, lastFrameHash, lastFrameFile, loopBuf,
                   pendingWrite, diskWrites, dedupedFrames, captureFailures, waitMs,
                   targetFrame>>

\* ctx.waitForDuration(ms) up to the first test of its loop
waitForDuration ==
    /\ CaptureCall
    /\ \E ms \in CaptureWaitDurations :
        /\ virtualFrameIndex + framesNeeded(ms) <= MaxClock
        /\ waitMs' = ms
        /\ targetFrame' = virtualFrameIndex + framesNeeded(ms)
    /\ opIndex' = opIndex + 1
    /\ pc' = "cap_wait"
    /\ UNCHANGED <<inputs, error, loopVars, events, virtualFrameIndex, captureFile,
                   narrationQueue, narrationConsumed, transitionPending, wasPending, startMs,
                   timelineVars, renderVars, pipeVars, remapVars, segmentVars, lastFrameHash,
                   lastFrameFile, loopBuf, pendingWrite, diskWrites, dedupedFrames,
                   captureFailures>>

\* waitForDuration: a test of `virtualFrameIndex < targetFrame` that fails ends the wait
WaitReturns ==
    /\ pc = "cap_wait"
    /\ ~(virtualFrameIndex < targetFrame)
    /\ pc' = "cap_ready"
    /\ UNCHANGED <<inputs, error, loopVars, runnerVars, timelineVars, renderVars, otherVars>>

\* the screenshot of the loop returns a buffer: an equal hash reuses the last file and
\* writes nothing; otherwise the loop takes a file number and awaits pendingWrite
CaptureLoopScreenshot ==
    /\ loopPc = "shot"
    /\ pc # "cap_failed"
    /\ \E hash \in 1..MaxHashes :
        IF hash = lastFrameHash /\ lastFrameFile # 0
        THEN /\ manifest' = Append(manifest, FrameEntry(lastFrameFile))
             /\ dedupedFrames' = dedupedFrames + 1
             /\ virtualFrameIndex' = virtualFrameIndex + 1
             /\ loopPc' = "sleep"
             /\ UNCHANGED <<frameFileCounter, loopBuf>>
        ELSE /\ frameFileCounter' = frameFileCounter + 1
             /\ loopBuf' = hash
             /\ loopPc' = "await_write"
             /\ UNCHANGED <<manifest, dedupedFrames, virtualFrameIndex>>
    /\ UNCHANGED <<composeVars, captureRunning, loopFile, loopTicks, opIndex, events,
                   captureFile, narrationQueue, narrationConsumed, transitionPending,
                   wasPending, startMs, transitionMarkers, renderVars, pipeVars, remapVars,
                   segmentVars, lastFrameHash, lastFrameFile, pendingWrite, diskWrites,
                   captureFailures, waitMs, targetFrame>>

\* the previous write has finished: the buffer is handed to writeFile, the frame is
\* pushed, the loop sleeps
CaptureLoopWrite ==
    /\ loopPc = "await_write"
    /\ pendingWrite = 0
    /\ pendingWrite' = frameFileCounter
    /\ diskWrites' = Append(diskWrites, frameFileCounter)
    /\ lastFrameFile' = frameFileCounter
    /\ lastFrameHash' = loopBuf
    /\ loopBuf' = 0
    /\ manifest' = Append(manifest, FrameEntry(frameFileCounter))
    /\ virtualFrameIndex' = virtualFrameIndex + 1
    /\ loopPc' = "sleep"
    /\ UNCHANGED <<composeVars, captureRunning, loopFile, loopTicks, frameFileCounter,
                   opIndex, events, captureFile, narrationQueue, narrationConsumed,
                   transitionPending, wasPending, startMs, transitionMarkers, renderVars,
                   pipeVars, remapVars, segmentVars, dedupedFrames, captureFailures, waitMs,
                   targetFrame>>

\* the screenshot of the loop throws: the failure is counted, the loop sleeps
CaptureLoopScreenshotFails ==
    /\ loopPc = "shot"
    /\ captureFailures < MaxFailures
    /\ captureFailures' = captureFailures + 1
    /\ loopPc' = "sleep"
    /\ UNCHANGED <<composeVars, captureRunning, loopFile, loopTicks, frameFileCounter,
                   runnerVars, timelineVars, renderVars, pipeVars, remapVars, segmentVars,
                   lastFrameHash, lastFrameFile, loopBuf, pendingWrite, diskWrites,
                   dedupedFrames, waitMs, targetFrame>>

\* writeFile finishes
WriteFileDone ==
    /\ pendingWrite # 0
    /\ pendingWrite' = 0
    /\ UNCHANGED <<composeVars, loopVars, runnerVars, timelineVars, renderVars, pipeVars,
                   remapVars, segmentVars, lastFrameHash, lastFrameFile, loopBuf, diskWrites,
                   dedupedFrames, captureFailures, waitMs, targetFrame>>

\* the loop wakes and tests captureRunning: next screenshot, or it leaves the while
CaptureLoopWake ==
    /\ loopPc = "sleep"
    /\ IF captureRunning
       THEN virtualFrameIndex < MaxClock /\ loopPc' = "shot"
       ELSE loopPc' = "flush"
    /\ UNCHANGED <<composeVars, captureRunning, loopFile, loopTicks, frameFileCounter,
                   runnerVars, timelineVars, renderVars, otherVars>>

\* `await pendingWrite` after the while: runCaptureLoop returns
CaptureLoopFlush ==
    /\ loopPc = "flush"
    /\ pendingWrite = 0
    /\ loopPc' = "idle"
    /\ UNCHANGED <<composeVars, captureRunning, loopFile, loopTicks, frameFileCounter,
                   runnerVars, timelineVars, renderVars, otherVars>>

\* the scenario function has returned: pauseCapture up to `await pendingScreenshot`
ScenarioReturns ==
    /\ pc = "cap_ready"
    /\ captureRunning' = FALSE
    /\ pc' = "cap_ending"
    /\ UNCHANGED <<inputs, error, loopPc, loopFile, loopTicks, frameFileCounter,
                   runnerVars, timelineVars, renderVars, otherVars>>

\* the scenario function throws: the finally block closes page, context and browser
ScenarioThrows ==
    /\ pc = "cap_ready"
    /\ pc' = "cap_failed"
    /\ error' = "scenario"
    /\ UNCHANGED <<inputs, loopVars, runnerVars, timelineVars, renderVars, otherVars>>

\* pauseCapture has returned: the final frame is taken and written (a failure is
\* swallowed), the browser is closed
FinalFrame ==
    /\ pc = "cap_ending"
    /\ pendingScreenshotSettled
    /\ frameFileCounter' = frameFileCounter + 1
    /\ \/ /\ diskWrites' = Append(diskWrites, frameFileCounter + 1)
          /\ manifest' = Append(manifest, FrameEntry(frameFileCounter + 1))
          /\ virtualFrameIndex' = virtualFrameIndex + 1
       \/ UNCHANGED <<diskWrites, manifest, virtualFrameIndex>>
    /\ pc' = "cap_done"
    /\ UNCHANGED <<inputs, error, captureRunning, loopPc, loopFile, loopTicks, opIndex,
                   events, captureFile, narrationQueue, narrationConsumed, transitionPending,
                   wasPending, startMs, transitionMarkers, renderVars, pipeVars, remapVars,
                   segmentVars, lastFrameHash, lastFrameFile, loopBuf, pendingWrite,
                   dedupedFrames, captureFailures, waitMs, targetFrame>>

\* runScenario of instrumented-page.js called: nothing captured yet
InitCapture ==
    /\ scenario = <<>>
    /\ pc = "cap_ready"
    /\ manifest = <<>>
    /\ transitionMarkers = <<>>
    /\ voiceover = TRUE
    /\ NoRemapInputs
    /\ NoSegmentInputs
    /\ InitRest

NextCapture ==
    \/ ensureCaptureStarted \/ waitForDuration \/ WaitReturns
    \/ CaptureLoopScreenshot \/ CaptureLoopWrite \/ CaptureLoopScreenshotFails
    \/ WriteFileDone \/ CaptureLoopWake \/ CaptureLoopFlush
    \/ ScenarioReturns \/ ScenarioThrows \/ FinalFrame

SpecCapture == InitCapture /\ [][NextCapture]_vars

\* the event loop runs every timer and every continuation that is due; the
\* screenshots of the loop succeed again and again
SpecCaptureFair ==
    /\ SpecCapture
    /\ WF_vars(WaitReturns)
    /\ WF_vars(CaptureLoopWake)
    /\ WF_vars(CaptureLoopWrite)
    /\ WF_vars(WriteFileDone)
    /\ WF_vars(CaptureLoopFlush)
    /\ SF_vars(CaptureLoopScreenshot)

-----------------------------------------------------------------------------
(* What the resolver is expected to return, stated on the expanded timeline *)

\* the image file of every expanded (virtual) frame, in order
RECURSIVE ExpandedFiles(_)
ExpandedFiles(m) ==
    IF m = <<>> THEN <<>>
    ELSE LET e == m[Len(m)]
         IN ExpandedFiles(SubSeq(m, 1, Len(m) - 1))
                \o [i \in 1..(IF e.type = "hold" THEN e.count ELSE 1) |-> e.file]

\* S: the expanded frame at which the entry with 0-based index idx ends
EntryEndFrame(m, idx) == Len(ExpandedFiles(SubSeq(m, 1, idx + 1))) - 1

ConsumedOf(t) == IF "consumedFrames" \in DOMAIN t THEN t.consumedFrames ELSE 1

\* inserted minus consumed frames of the markers before the k-th
RECURSIVE OffsetBefore(_, _)
OffsetBefore(ts, k) ==
    IF k <= 1 THEN 0
    ELSE OffsetBefore(ts, k - 1) + ts[k - 1].durationFrames - ConsumedOf(ts[k - 1])

\* S + offset of the k-th marker: the output frame of its last "before" frame
WindowBase(m, ts, k) == EntryEndFrame(m, ts[k].afterEntryIndex) + OffsetBefore(ts, k)
WindowEnd(m, ts, k) == WindowBase(m, ts, k) + ts[k].durationFrames
InWindow(m, ts, k, f) == WindowBase(m, ts, k) + 1 <= f /\ f <= WindowEnd(m, ts, k)
PastEarlierWindows(m, ts, k, f) == \A j \in 1..(k - 1) : f > WindowEnd(m, ts, j)

HasNextEntry(m, t) == t.afterEntryIndex + 2 <= Len(m)

ExpectedTransition(m, ts, k, f) ==
    LET t == ts[k]
    IN [type       |-> "transition",
        beforeFile |-> IF "beforeFile" \in DOMAIN t THEN t.beforeFile
                       ELSE ExpandedFiles(m)[EntryEndFrame(m, t.afterEntryIndex) + 1],
        afterFile  |-> IF "afterFile" \in DOMAIN t THEN t.afterFile
                       ELSE IF HasNextEntry(m, t) THEN m[t.afterEntryIndex + 2].file
                       ELSE m[Len(m)].file,
        progress   |-> [num |-> f - WindowBase(m, ts, k), den |-> t.durationFrames],
        transition |-> t.transition]

Resolved == resolution.type # "none"

\* C1 as stated: every output frame in a marker's window [S+offset+1,
\* S+offset+durationFrames] resolves to that marker's Transition, with progress
\* (f - (S+offset)) / durationFrames, beforeFile = marker.beforeFile or the file of
\* expanded frame S, afterFile = marker.afterFile or the file of the next entry
\* (markers with a next entry or an afterFile of their own).
C1_WindowResolvesToItsMarker ==
    Resolved =>
        \A k \in 1..Len(transitionMarkers) :
            (/\ InWindow(manifest, transitionMarkers, k, outputFrame)
             /\ (HasNextEntry(manifest, transitionMarkers[k])
                    \/ "afterFile" \in DOMAIN transitionMarkers[k]))
            => resolution = ExpectedTransition(manifest, transitionMarkers, k, outputFrame)

\* C1 amended: every output frame in a marker's window that lies past the window of
\* every earlier marker resolves to that marker's Transition with the stated
\* progress and files (afterFile falling back to the last entry's file when no entry
\* follows), and no frame outside the window resolves to that marker: a marker with
\* durationFrames = 1 then occupies exactly one output frame, with progress 1/1.
C1_WindowPastEarlierResolvesToItsMarker ==
    Resolved =>
        \A k \in 1..Len(transitionMarkers) :
            /\ (/\ InWindow(manifest, transitionMarkers, k, outputFrame)
                /\ PastEarlierWindows(manifest, transitionMarkers, k, outputFrame))
               => resolution = ExpectedTransition(manifest, transitionMarkers, k, outputFrame)
            /\ (/\ resolution.type = "transition"
                /\ resolution.transition = transitionMarkers[k].transition)
               => InWindow(manifest, transitionMarkers, k, outputFrame)

\* C1 witness: a frame resolved to the second marker's transition, whose window is
\* shifted by a non-zero offset of the first marker; and a one-frame transition.
C1_Witness ==
    /\ Len(transitionMarkers) = 2
    /\ OffsetBefore(transitionMarkers, 2) > 0
    /\ transitionMarkers[2].durationFrames = 1
    /\ resolution.type = "transition"
    /\ resolution.transition = transitionMarkers[2].transition
    /\ resolution.progress = [num |-> 1, den |-> 1]

InNoWindow(m, ts, f) == \A k \in 1..Len(ts) : ~InWindow(m, ts, k, f)

Clamp(x, lo, hi) == IF x < lo THEN lo ELSE IF x > hi THEN hi ELSE x

ExpectedSource(m, offset, f) ==
    [type |-> "source",
     file |-> ExpandedFiles(m)[Clamp(f - offset, 0, Len(ExpandedFiles(m)) - 1) + 1]]

\* sum of (durationFrames - consumedFrames) over ALL markers whose window ends before f
RECURSIVE OffsetOfEndedWindows(_, _, _, _)
OffsetOfEndedWindows(m, ts, k, f) ==
    IF k > Len(ts) THEN 0
    ELSE (IF WindowEnd(m, ts, k) < f
          THEN ts[k].durationFrames - ConsumedOf(ts[k]) ELSE 0)
         + OffsetOfEndedWindows(m, ts, k + 1, f)

\* the same sum over the LEADING markers only, up to the first whose window has not ended
RECURSIVE OffsetOfLeadingEndedWindows(_, _, _, _)
OffsetOfLeadingEndedWindows(m, ts, k, f) ==
    IF k > Len(ts) \/ ~(WindowEnd(m, ts, k) < f) THEN 0
    ELSE ts[k].durationFrames - ConsumedOf(ts[k])
         + OffsetOfLeadingEndedWindows(m, ts, k + 1, f)

\* C2 as stated: a frame in no transition window resolves to Source(file of expanded
\* frame clamp(f - offset)), offset summed over all markers whose window ends before f.
C2_SourceFrameByEndedWindows ==
    (Resolved /\ InNoWindow(manifest, transitionMarkers, outputFrame)) =>
        resolution = ExpectedSource(manifest,
            OffsetOfEndedWindows(manifest, transitionMarkers, 1, outputFrame), outputFrame)

\* C2 amended: a frame in no transition window resolves to Source(file of expanded
\* frame clamp(f - offset, 0, expandedFrameCount - 1)), offset summed over the leading
\* markers (in afterEntryIndex order) whose window ends before f, up to the first
\* marker whose window has not ended; with no markers it is the file of frame f.
C2_SourceFrameByLeadingWindows ==
    (Resolved /\ InNoWindow(manifest, transitionMarkers, outputFrame)) =>
        resolution = ExpectedSource(manifest,
            OffsetOfLeadingEndedWindows(manifest, transitionMarkers, 1, outputFrame), outputFrame)

\* C2 witness: a source frame resolved after a transition that shifted the timeline
C2_Witness ==
    /\ resolution.type = "source"
    /\ InNoWindow(manifest, transitionMarkers, outputFrame)
    /\ OffsetOfLeadingEndedWindows(manifest, transitionMarkers, 1, outputFrame) > 0
    /\ outputFrame - OffsetOfLeadingEndedWindows(manifest, transitionMarkers, 1, outputFrame)
          < Len(ExpandedFiles(manifest)) - 1

ExpectedTotal(m, ts) == Len(ExpandedFiles(m)) + OffsetBefore(ts, Len(ts) + 1)

AcceptedTimeline(m, ts) ==
    /\ Len(m) >= 1
    /\ \A i \in 1..Len(m) : m[i].type = "hold" => m[i].count >= 1
    /\ \A k \in 1..Len(ts) :
        /\ 0 <= ts[k].afterEntryIndex /\ ts[k].afterEntryIndex < Len(m)
        /\ ts[k].durationFrames >= 1
        /\ ConsumedOf(ts[k]) >= 1

\* C3 as stated: for every accepted timeline totalOutputFrames equals
\* expandedFrameCount + sum(durationFrames - consumedFrames) and is >= 1.
C3_TotalIsSumAndPositive ==
    (durationInFrames > 0 /\ AcceptedTimeline(manifest, transitionMarkers)) =>
        /\ totalOutputFrames(manifest, transitionMarkers)
              = ExpectedTotal(manifest, transitionMarkers)
        /\ totalOutputFrames(manifest, transitionMarkers) >= 1

\* C3 amended: for every accepted timeline totalOutputFrames equals
\* expandedFrameCount + sum(durationFrames - consumedFrames); it is >= 1 whenever no
\* marker consumes more frames than it inserts (consumedFrames <= durationFrames).
C3_TotalIsSumAndPositiveIfNotOverconsumed ==
    (durationInFrames > 0 /\ AcceptedTimeline(manifest, transitionMarkers)) =>
        /\ totalOutputFrames(manifest, transitionMarkers)
              = ExpectedTotal(manifest, transitionMarkers)
        /\ (\A k \in 1..Len(transitionMarkers) :
                ConsumedOf(transitionMarkers[k]) <= transitionMarkers[k].durationFrames)
           => totalOutputFrames(manifest, transitionMarkers) >= 1

\* C3 witness: the composition length was computed for a timeline whose two markers
\* insert and consume frames
C3_Witness ==
    /\ durationInFrames > 0
    /\ Len(transitionMarkers) = 2
    /\ "consumedFrames" \in DOMAIN transitionMarkers[1]
    /\ transitionMarkers[1].consumedFrames = 2
    /\ transitionMarkers[1].durationFrames = 2
    /\ totalOutputFrames(manifest, transitionMarkers) > Len(ExpandedFiles(manifest))

-----------------------------------------------------------------------------
(* What the recording and the compose pipeline are expected to do *)

NarrationEvents == SelectSeq(events, LAMBDA e : e.type = "narration")

\* a / b <= c / d on fractions, by cross-multiplication
TimeLeq(a, b) == a.num * b.den <= b.num * a.den
TimeLess(a, b) == a.num * b.den < b.num * a.den

\* C4: after any sequence of runner operations interleaved with capture-loop ticks,
\* the events held by the collector have non-decreasing timestampMs in emission order.
C4_TimestampsNonDecreasing ==
    \A i \in 1..Len(events) : \A j \in i..Len(events) :
        TimeLeq(events[i].timestampMs, events[j].timestampMs)

\* C4 witness: three events of one action called with a narration, with time passing
\* between them and while the action settled
C4_Witness ==
    /\ Len(events) >= 3
    /\ events[1].type = "narration"
    /\ events[2].type = "cursor_target"
    /\ events[3].type = "action"
    /\ TimeLess(events[1].timestampMs, events[3].timestampMs)
    /\ TimeLess(events[3].timestampMs, events[3].settledAtMs)

Finalized == pc \in {"recorded", "render", "done"}

\* C5: in every timeline finalized by the runner, every transition marker satisfies
\* 0 <= afterEntryIndex < len(manifest) and durationFrames >= 1, and the markers are
\* ordered by non-decreasing afterEntryIndex.
C5_MarkersValidWhenFinalized ==
    Finalized =>
        /\ \A k \in 1..Len(transitionMarkers) :
              /\ 0 <= transitionMarkers[k].afterEntryIndex
              /\ transitionMarkers[k].afterEntryIndex < Len(manifest)
              /\ transitionMarkers[k].durationFrames >= 1
        /\ \A k \in 1..(Len(transitionMarkers) - 1) :
              transitionMarkers[k].afterEntryIndex <= transitionMarkers[k + 1].afterEntryIndex

\* C6: after recording, if the number of narrations consumed differs from the number
\* of pre-generated segments, compose fails with the narration-mismatch error and the
\* render is never started: the render is only ever reached with equal counts.
C6_MismatchFailsBeforeRender ==
    /\ [][(pc = "recorded" /\ narrationConsumed # Len(pregenerated))
            => (pc' = "exit1" /\ error' = "NarrationMismatch" /\ durationInFrames' = 0)]_vars
    /\ []((pc \in {"render", "done"} \/ error = "render")
            => narrationConsumed = Len(pregenerated))

\* C6 witness: compose failed with the mismatch after a recording that consumed one
\* of two pre-generated segments
C6_Witness ==
    /\ pc = "exit1"
    /\ error = "NarrationMismatch"
    /\ Len(pregenerated) = 2
    /\ narrationConsumed = 1
    /\ durationInFrames = 0

\* C7: for a scenario that issues the same operations in both passes, the number of
\* narration texts collected by the preprocessing stub equals the number of narrations
\* the recording runner consumes, whichever way narration is supplied.
C7_StubCountEqualsConsumed ==
    pc = "recorded" => Len(narrations) = narrationConsumed

\* C8: the k-th narration event emitted during recording carries the text, duration
\* and audio reference of the k-th pre-generated segment, and a pop from an empty queue
\* fails without increasing the consumed count.
C8_NarrationsInQueueOrder ==
    /\ [](/\ Len(NarrationEvents) <= Len(pregenerated)
           /\ \A k \in 1..Len(NarrationEvents) :
                 /\ NarrationEvents[k].text = pregenerated[k].text
                 /\ NarrationEvents[k].audioDurationMs = pregenerated[k].durationMs
                 /\ NarrationEvents[k].audioFile = pregenerated[k].audioFile)
    /\ [][(pc = "narration" /\ narrationQueue = <<>>)
            => (/\ narrationConsumed' = narrationConsumed
                /\ events' = events
                /\ pc' \in {"narration", "exit1"}
                /\ pc' = "exit1" => error' = "NoNarration")]_vars

\* C8 witness: two narrations emitted from a queue of two different segments
C8_Witness ==
    /\ Len(NarrationEvents) = 2
    /\ NarrationEvents[1].audioDurationMs # NarrationEvents[2].audioDurationMs
    /\ NarrationEvents[1].text # NarrationEvents[2].text
    /\ narrationQueue = <<>>
    /\ narrationConsumed = 2

\* the frames by which the output timeline is shifted at source time ts: the frames
\* each transition inserts beyond the one it consumes, for the transitions that start
\* before ts
RECURSIVE ShiftFramesAt(_, _)
ShiftFramesAt(ts, k) ==
    IF k = 0 THEN 0
    ELSE LET t == transitionMarkers[k]
             beforeFrames == Len(ExpandedFiles(SubSeq(manifest, 1, t.afterEntryIndex + 1)))
         IN (IF (beforeFrames - 1) * 1000 * ts.den < ts.num * DefaultFps
             THEN t.durationFrames - 1 ELSE 0)
            + ShiftFramesAt(ts, k - 1)

\* the composition frame nearest to the output timestamp of event e
OutputFrameOf(e) ==
    LET shift == ShiftFramesAt(e.timestampMs, Len(transitionMarkers))
        num == e.timestampMs.num * DefaultFps + shift * 1000 * e.timestampMs.den
        den == e.timestampMs.den * 1000
    IN CHOOSE n \in 0..(num \div den + 1) : 2 * n * den <= 2 * num + den /\ 2 * num + den < 2 * (n + 1) * den

\* C9: only the first pre-generated segment carries an audio file reference and all
\* later ones carry null, so a recorded timeline with N >= 1 consumed narrations has
\* exactly one narration event with a non-null audioFile (the first one) and the
\* compositor places exactly one audio track, at that event's output timestamp.
C9_OneAudioTrackAtFirstNarration ==
    /\ \A i \in 1..Len(pregenerated) : (pregenerated[i].audioFile # Null) <=> (i = 1)
    /\ \A k \in 1..Len(NarrationEvents) : (NarrationEvents[k].audioFile # Null) <=> (k = 1)
    /\ (pc = "done" /\ narrationConsumed >= 1) =>
          /\ Len(audioTracks) = 1
          /\ audioTracks[1].src = AudioPath
          /\ audioTracks[1].from = OutputFrameOf(NarrationEvents[1])
    /\ (pc = "done" /\ narrationConsumed = 0) => audioTracks = <<>>

\* C9 witness: a timeline with two narrations rendered with one audio track
C9_Witness ==
    /\ pc = "done"
    /\ narrationConsumed = 2
    /\ Len(NarrationEvents) = 2
    /\ Len(audioTracks) = 1
    /\ audioTracks[1].from > 0

ResolvingPcs == {"action", "locating", "moving", "acting", "resolving"}

\* C10: after transition() sets transitionPending, the next resolving action performs
\* its action, then captures exactly one explicit "after" frame, clears
\* transitionPending and resumes capture; wait() while a transition is pending adds
\* frames but leaves transitionPending set.
C10_PendingTransitionResolvedByAction ==
    [][/\ (pc \in ResolvingPcs /\ transitionPending /\ ~transitionPending')
           => /\ pc = "resolving" /\ pc' = "ready"
              /\ events' = events
              /\ events[Len(events)].type = "action"
              /\ events[Len(events)].action = CurrentOp.op
              /\ manifest' = Append(manifest, [type |-> "frame", file |-> captureFile])
              /\ captureRunning'
       /\ (pc \in ResolvingPcs /\ transitionPending /\ pc' = "ready")
           => (pc = "resolving" /\ ~transitionPending')
       /\ (pc \in {"ready", "wait_pending", "wait_shot"} /\ pc' \in {"wait_pending", "wait_shot"})
           => (transitionPending /\ transitionPending')
       /\ (pc = "wait_shot" /\ pc' = "ready")
           => (Len(manifest') > Len(manifest) /\ transitionPending')
      ]_vars

\* C10 witness: a transition followed by an action that resolved it
C10_Witness ==
    /\ pc = "ready"
    /\ opIndex = 3
    /\ scenario[1].op = "transition"
    /\ scenario[2].op \in ActionNames
    /\ Len(transitionMarkers) = 1
    /\ ~transitionPending
    /\ captureRunning
    /\ events[Len(events)].type = "action"

-----------------------------------------------------------------------------
(* What transition() and scene() are expected to do *)

\* the operations that resolve a pending transition: the five actions and a scene
\* with a slide
Resolves(o) == o.op \in ActionNames \/ (o.op = "scene" /\ "slide" \in DOMAIN o)

\* whether a transition is unresolved after the first n operations of s
RECURSIVE PendingAfter(_, _)
PendingAfter(s, n) ==
    IF n = 0 THEN FALSE
    ELSE IF s[n].op = "transition" THEN TRUE
    ELSE IF Resolves(s[n]) THEN FALSE
    ELSE PendingAfter(s, n - 1)

\* the markers expected after the first n operations of s: a transition called while
\* another is unresolved replaces it
RECURSIVE MarkersAfter(_, _)
MarkersAfter(s, n) ==
    IF n = 0 THEN 0
    ELSE IF s[n].op = "transition" /\ ~PendingAfter(s, n - 1) THEN MarkersAfter(s, n - 1) + 1
    ELSE MarkersAfter(s, n - 1)

\* C11: at most one unresolved transition marker exists at any time: a second
\* transition() with no resolving action in between replaces the earlier marker (the
\* list grows by one in total), and a transition still pending at the end of the
\* scenario is removed, so a finalized timeline holds only resolved markers and
\* transitionPending is false.
C11_OneUnresolvedMarker ==
    /\ (pc = "ready" /\ opIndex >= 1) =>
          /\ transitionPending = PendingAfter(scenario, opIndex - 1)
          /\ Len(transitionMarkers) = MarkersAfter(scenario, opIndex - 1)
    /\ transitionPending => Len(transitionMarkers) <= MarkersAfter(scenario, Len(scenario))
    /\ Finalized =>
          /\ ~transitionPending
          /\ Len(transitionMarkers) =
                MarkersAfter(scenario, Len(scenario))
                   - (IF PendingAfter(scenario, Len(scenario)) THEN 1 ELSE 0)

\* C11 witness: transition() called twice in a row left one marker, the second one
C11_Witness ==
    /\ pc = "ready"
    /\ opIndex = 3
    /\ scenario[1].op = "transition"
    /\ scenario[2].op = "transition"
    /\ "type" \in DOMAIN scenario[2]
    /\ transitionPending
    /\ Len(transitionMarkers) = 1
    /\ transitionMarkers[1].transition = scenario[2].type

\* a duration that is zero, negative, NaN or infinite
BadDuration(o) ==
    /\ "duration" \in DOMAIN o
    /\ o.duration.kind \in {"NaN", "Infinity"} \/ o.duration.ms <= 0

\* C12: transition() with a duration that is zero, negative, NaN or infinite fails
\* with the invalid-argument error and has no effect: no marker is recorded or
\* removed, transitionPending keeps its value and capture is not paused.
C12_InvalidDurationHasNoEffect ==
    [][(AtOp({"transition"}) /\ BadDuration(CurrentOp) /\ pc' # pc)
          => /\ pc' = "exit1"
             /\ error' = "InvalidArgument"
             /\ transitionMarkers' = transitionMarkers
             /\ transitionPending' = transitionPending
             /\ captureRunning' = captureRunning
             /\ manifest' = manifest
             /\ events' = events]_vars

\* C12 witness: transition() failed on its duration while an earlier transition was
\* pending, and the earlier marker is still there
C12_Witness ==
    /\ pc = "exit1"
    /\ error = "InvalidArgument"
    /\ opIndex = 2
    /\ transitionPending
    /\ Len(transitionMarkers) = 1

\* ceil(slide.duration * fps / 1000), the duration defaulting to 2000 ms, fps = 30
SlideFrames(o) ==
    LET d == IF "duration" \in DOMAIN o.slide THEN o.slide.duration ELSE 2000
    IN CHOOSE n \in 0..d : n * 1000 >= d * 30 /\ (n - 1) * 1000 < d * 30

\* the entries a slide of n frames adds: one explicit frame, then a hold of the rest
SlideEntries(file, n) ==
    IF n > 1 THEN <<[type |-> "frame", file |-> file],
                    [type |-> "hold", file |-> file, count |-> n - 1]>>
    ELSE <<[type |-> "frame", file |-> file]>>

\* C13: scene(title, {slide}) pauses capture, adds exactly one explicit frame followed
\* by a hold so that the virtual clock advances by exactly
\* ceil(slide.duration * fps / 1000) frames, emits exactly one scene event and returns
\* with capture still paused; the next action resumes capture.
C13_SlideAdvancesClockAndStaysPaused ==
    /\ [](pc = "scene_slide" => ~captureRunning)
    /\ [][/\ (pc = "ready" /\ pc' = "scene_slide")
               => (events' = events /\ manifest' = manifest)
          /\ (pc = "scene_slide" /\ pc' = "ready")
               => /\ loopPc = "idle" /\ loopPc' = "idle" /\ ~captureRunning'
                  /\ virtualFrameIndex' = virtualFrameIndex + SlideFrames(CurrentOp)
                  /\ manifest' = manifest \o SlideEntries(frameFileCounter', SlideFrames(CurrentOp))
                  /\ Len(events') = Len(events) + 1
                  /\ SubSeq(events', 1, Len(events)) = events
                  /\ events'[Len(events')].type = "scene"
                  /\ events'[Len(events')].timestampMs = currentTimeMs(virtualFrameIndex')
          /\ (pc \in {"acting", "resolving"} /\ pc' = "ready") => captureRunning'
         ]_vars

\* C13 witness: a slide of the default duration held 60 frames, capture stayed paused,
\* and the action after it has resumed capture
C13_Witness ==
    /\ pc = "ready"
    /\ opIndex = 3
    /\ scenario[1].op = "scene"
    /\ "slide" \in DOMAIN scenario[1]
    /\ "duration" \notin DOMAIN scenario[1].slide
    /\ scenario[2].op \in ActionNames
    /\ \E i \in 1..Len(manifest) : manifest[i].type = "hold" /\ manifest[i].count = 59
    /\ virtualFrameIndex >= 60
    /\ captureRunning

-----------------------------------------------------------------------------
(* What the time remapper is expected to return, stated on the slides as given *)

\* slide j comes before slide i in source time (the order of the list breaks ties)
Earlier(j, i) ==
    \/ slideScenes[j].timestampMs < slideScenes[i].timestampMs
    \/ slideScenes[j].timestampMs = slideScenes[i].timestampMs /\ j < i

\* the durations of the slides among 1..j that come before slide i
RECURSIVE EarlierDurations(_, _)
EarlierDurations(i, j) ==
    IF j = 0 THEN 0
    ELSE (IF Earlier(j, i) THEN slideScenes[j].slideDurationMs ELSE 0)
            + EarlierDurations(i, j - 1)

SlideStart(i) == slideScenes[i].timestampMs + EarlierDurations(i, Len(slideScenes))

SlideEnd(i) == SlideStart(i) + slideScenes[i].slideDurationMs

InSlideWindow(i, t) == SlideStart(i) <= t /\ t < SlideEnd(i)

InNoSlideWindow(t) == \A i \in 1..Len(slideScenes) : ~InSlideWindow(i, t)

\* source time t lies in the dead zone [sceneT, sceneT + D) of slide i
InDeadZone(i, t) ==
    /\ slideScenes[i].deadAfterMs > 0
    /\ slideScenes[i].timestampMs <= t
    /\ t < slideScenes[i].timestampMs + slideScenes[i].deadAfterMs

DeadZoneEnd(i) == slideScenes[i].timestampMs + slideScenes[i].deadAfterMs

SourceTimeComputed == sourceTime # NoTime

\* C14: sourceTimeMs treats the output window of each slide as half-open
\* [slideStart, slideEnd), slideStart = scene timestamp + durations of all earlier
\* slides: inside the window it returns the slide's scene timestamp, and at exactly
\* output = slideEnd it returns the first source time of the post-slide segment (the
\* scene timestamp, moved to the end of a dead zone that holds it), unless the window
\* of the next slide starts there.
C14_SlideWindowHalfOpen ==
    SourceTimeComputed =>
        \A i \in 1..Len(slideScenes) :
            /\ InSlideWindow(i, outputTimeMs) => sourceTime = slideScenes[i].timestampMs
            /\ (outputTimeMs = SlideEnd(i) /\ InNoSlideWindow(outputTimeMs)) =>
                  IF \E j \in 1..Len(slideScenes) : InDeadZone(j, slideScenes[i].timestampMs)
                  THEN \E j \in 1..Len(slideScenes) :
                          /\ InDeadZone(j, slideScenes[i].timestampMs)
                          /\ sourceTime = DeadZoneEnd(j)
                  ELSE sourceTime = slideScenes[i].timestampMs

\* C14 witness: sourceTimeMs asked for the end of the window of the third of three
\* slides given out of source-time order, with a dead zone after it
C14_Witness ==
    /\ SourceTimeComputed
    /\ Len(slideScenes) = 3
    /\ slideScenes[1].timestampMs > slideScenes[2].timestampMs
    /\ \E i \in 1..3 :
          /\ outputTimeMs = SlideEnd(i)
          /\ InNoSlideWindow(outputTimeMs)
          /\ SlideStart(i) = slideScenes[i].timestampMs + 2 * MaxSlideDuration
          /\ slideScenes[i].deadAfterMs > 0
          /\ sourceTime = DeadZoneEnd(i)

\* the durations of the slides among 1..j whose window has ended at output time t
RECURSIVE EndedDurations(_, _)
EndedDurations(t, j) ==
    IF j = 0 THEN 0
    ELSE (IF SlideEnd(j) <= t THEN slideScenes[j].slideDurationMs ELSE 0)
            + EndedDurations(t, j - 1)

\* the source time an output time outside every slide window maps to
RawSourceTime(t) == t - EndedDurations(t, Len(slideScenes))

\* C15: for a slide with scene timestamp sceneT and deadAfterMs = D > 0, every output
\* time whose source mapping falls in [sceneT, sceneT + D) makes sourceTimeMs return
\* sceneT + D, and no value returned by sourceTimeMs lies strictly inside a dead zone.
C15_DeadZoneClamped ==
    SourceTimeComputed =>
        \A i \in 1..Len(slideScenes) :
            slideScenes[i].deadAfterMs > 0 =>
                /\ (InNoSlideWindow(outputTimeMs) /\ InDeadZone(i, RawSourceTime(outputTimeMs)))
                       => sourceTime = DeadZoneEnd(i)
                /\ ~(slideScenes[i].timestampMs < sourceTime /\ sourceTime < DeadZoneEnd(i))

\* the durations of the slides among 1..j whose scene timestamp is <= t
RECURSIVE DurationsUpTo(_, _)
DurationsUpTo(t, j) ==
    IF j = 0 THEN 0
    ELSE (IF slideScenes[j].timestampMs <= t THEN slideScenes[j].slideDurationMs ELSE 0)
            + DurationsUpTo(t, j - 1)

RemapComputed == remapIn # <<>> /\ Len(remapOut) = Len(remapIn)

\* C16: remapEvents returns a new sequence in which the timestamp of each event is
\* increased by the sum of the durations of all slides whose scene timestamp is <= the
\* event's timestamp, and leaves its input unmodified; with an empty slide list
\* remapEvents is the identity on timestamps and sourceTimeMs(t) = t.
C16_RemapShiftsBySlides ==
    /\ [][remapIn' = remapIn /\ slideScenes' = slideScenes]_vars
    /\ [](RemapComputed =>
             \A k \in 1..Len(remapIn) :
                 remapOut[k] =
                    [remapIn[k] EXCEPT !.timestampMs =
                        @ + DurationsUpTo(remapIn[k].timestampMs, Len(slideScenes))])
    /\ [](slideScenes = <<>> =>
             /\ RemapComputed => remapOut = remapIn
             /\ \A t \in 0..MaxOutputTime : sourceTimeMs(t, slideScenes) = t)

\* C16 witness: of two events remapped over three slides, the first was shifted by
\* two slides and the second, which lies before every slide, was not
C16_Witness ==
    /\ RemapComputed
    /\ Len(slideScenes) = 3
    /\ Len(remapIn) = 2
    /\ remapOut[1].timestampMs = remapIn[1].timestampMs + 2 * MaxSlideDuration
    /\ remapOut[2].timestampMs = remapIn[2].timestampMs
    /\ remapOut[2].id = 2

-----------------------------------------------------------------------------
(* The last output frame *)

LastOutputFrame(m, ts) == totalOutputFrames(m, ts) - 1

LastEntrySource(m) == [type |-> "source", file |-> m[Len(m)].file]

\* C17 as stated: for f = totalOutputFrames - 1 of any accepted timeline,
\* resolveOutputFrame(f) returns a Source whose file is the last manifest entry's
\* file whenever f lies in no transition window.
C17_LastFrameIsLastEntry ==
    (/\ Resolved
     /\ AcceptedTimeline(manifest, transitionMarkers)
     /\ outputFrame = LastOutputFrame(manifest, transitionMarkers)
     /\ InNoWindow(manifest, transitionMarkers, outputFrame))
    => resolution = LastEntrySource(manifest)

NoMarkerOverconsumes(ts) == \A k \in 1..Len(ts) : ConsumedOf(ts[k]) <= ts[k].durationFrames

\* C17 amended: for f = totalOutputFrames - 1 of any accepted timeline in which no
\* marker consumes more frames than it inserts (consumedFrames <= durationFrames),
\* resolveOutputFrame(f) returns a Source whose file is the last manifest entry's
\* file whenever f lies in no transition window.
C17_LastFrameIsLastEntryIfNotOverconsumed ==
    (/\ Resolved
     /\ AcceptedTimeline(manifest, transitionMarkers)
     /\ NoMarkerOverconsumes(transitionMarkers)
     /\ outputFrame = LastOutputFrame(manifest, transitionMarkers)
     /\ InNoWindow(manifest, transitionMarkers, outputFrame))
    => resolution = LastEntrySource(manifest)

\* C17 witness: the last output frame of a timeline with two markers, the first of
\* which inserts more frames than it consumes, lies past the expanded frames and
\* resolved to the last entry's file
C17_Witness ==
    /\ Resolved
    /\ AcceptedTimeline(manifest, transitionMarkers)
    /\ NoMarkerOverconsumes(transitionMarkers)
    /\ Len(transitionMarkers) = 2
    /\ transitionMarkers[1].durationFrames > ConsumedOf(transitionMarkers[1])
    /\ outputFrame = LastOutputFrame(manifest, transitionMarkers)
    /\ InNoWindow(manifest, transitionMarkers, outputFrame)
    /\ resolution = LastEntrySource(manifest)
    /\ outputFrame >= Len(ExpandedFiles(manifest))

-----------------------------------------------------------------------------
(* What the narration preprocessor is expected to return *)

SegmentsComputed == segments # <<>>

EnoughSilences == Len(silences) >= Len(texts) - 1

\* the sets of N-1 silences none of which is shorter than a silence left out
LongestSilences ==
    {S \in SUBSET (1..Len(silences)) :
        /\ Cardinality(S) = Len(texts) - 1
        /\ \A i \in S, j \in (1..Len(silences)) \ S :
              silences[i].endMs - silences[i].startMs
                 >= silences[j].endMs - silences[j].startMs}

\* the k-th of the chosen silences in the order of their start times
KthByStart(S, k) ==
    CHOOSE i \in S :
        Cardinality({j \in S : silences[j].startMs < silences[i].startMs}) = k - 1

IsMidpoint(b, s) == 2 * b = s.startMs + s.endMs

\* the midpoint, or the next whole ms when the midpoint falls on a half
IsRoundedMidpoint(b, s) == 2 * b = s.startMs + s.endMs \/ 2 * b = s.startMs + s.endMs + 1

\* segment k spans [previous boundary (0 for the first), boundary k), the last one
\* ends at the total duration; IsBoundary(b, s) says that b is the boundary of s
SegmentsSplitAt(S, IsBoundary(_, _)) ==
    /\ Len(segments) = Len(texts)
    /\ \A k \in 1..Len(texts) :
        /\ segments[k].startMs.kind = "number"
        /\ segments[k].endMs.kind = "number"
        /\ IF k = 1 THEN segments[k].startMs.ms = 0
           ELSE segments[k].startMs = segments[k - 1].endMs
        /\ IF k = Len(texts) THEN segments[k].endMs.ms = totalDurationMs
           ELSE IsBoundary(segments[k].endMs.ms, silences[KthByStart(S, k)])

\* the example of the specification
ExampleSegments ==
    mapSilencesToSegments(textsOf(<<1, 1, 1>>),
                          <<[startMs |-> 1800, endMs |-> 2100],
                            [startMs |-> 3900, endMs |-> 4200]>>, 6000)

ExampleWindows ==
    /\ Len(ExampleSegments) = 3
    /\ <<ExampleSegments[1].startMs, ExampleSegments[1].endMs>> = <<Num(0), Num(1950)>>
    /\ <<ExampleSegments[2].startMs, ExampleSegments[2].endMs>> = <<Num(1950), Num(4050)>>
    /\ <<ExampleSegments[3].startMs, ExampleSegments[3].endMs>> = <<Num(4050), Num(6000)>>

\* C18 as stated: with N texts and M >= N-1 silences, the N-1 longest silences are
\* selected, re-ordered by start time, and each one's midpoint is a boundary: segment
\* i spans [previous boundary (0 for the first), boundary_i), the last segment ends
\* at the total duration; the example gives [0,1950), [1950,4050), [4050,6000).
C18_BoundariesAtMidpoints ==
    /\ ExampleWindows
    /\ (SegmentsComputed /\ EnoughSilences) =>
          \E S \in LongestSilences : SegmentsSplitAt(S, IsMidpoint)

\* C18 amended: with N texts and M >= N-1 silences, the N-1 longest silences are
\* selected (none of them shorter than a silence left out), re-ordered by start time, and each
\* one's midpoint rounded to the nearest whole ms (a half rounds up) is a boundary:
\* segment i spans [previous boundary (0 for the first), boundary_i), the last segment
\* ends at the total duration; the example gives [0,1950), [1950,4050), [4050,6000).
C18_BoundariesAtRoundedMidpoints ==
    /\ ExampleWindows
    /\ (SegmentsComputed /\ EnoughSilences) =>
          \E S \in LongestSilences : SegmentsSplitAt(S, IsRoundedMidpoint)

\* C18 witness: of three silences the two longest, which are the last two and are
\* ranked in the reverse of their position, became the boundaries of three texts, the
\* second one at a midpoint that falls on a half
C18_Witness ==
    /\ SegmentsComputed
    /\ Len(texts) = 3
    /\ silences = <<[startMs |-> 0, endMs |-> 1], [startMs |-> 1, endMs |-> 3],
                    [startMs |-> 3, endMs |-> 6]>>
    /\ totalDurationMs = 6
    /\ segments[1].endMs = Num(2)
    /\ segments[2].endMs = Num(5)
    /\ segments[3].endMs = Num(6)

TooFewSilences == Len(silences) < Len(texts) - 1

\* N segments, the first starting at 0, each starting where the one before it ends,
\* the last ending at the total duration
ContiguousFromZero ==
    /\ Len(segments) = Len(texts)
    /\ segments[1].startMs = Num(0)
    /\ \A k \in 1..(Len(segments) - 1) :
        /\ segments[k].endMs.kind = "number"
        /\ segments[k + 1].startMs = segments[k].endMs
    /\ segments[Len(segments)].endMs = Num(totalDurationMs)

\* C19 as stated: with fewer than N-1 silences for N texts the total duration is
\* split in proportion to text length; N segments are returned, contiguous from 0,
\* the last one ending exactly at the total duration.
C19_FallbackContiguous ==
    (SegmentsComputed /\ TooFewSilences) => ContiguousFromZero

-----------------------------------------------------------------------------
(* The exit code of compose *)

\* C20 as stated: compose exits with 1 on any failing step and with 0 only when
\* every step succeeded; a TTS failure is downgraded only if --no-voiceover or a flag
\* permits it, and then the pipeline continues without audio: the recording of a
\* scenario that contains narrations still completes and the divergence check is
\* skipped.
C20_ExitCodeAndDowngrade ==
    /\ pc = "done" => (failedSteps = {} /\ error = "none")
    /\ ("tts" \in failedSteps /\ voiceover) => pc = "exit1"
    /\ ~voiceover => error \notin {"NoNarration", "NarrationMismatch"}

-----------------------------------------------------------------------------
(* Order of the source times *)

\* C28: sourceTimeMs is monotonically non-decreasing in output time: for any slide
\* list and any output times t1 <= t2, sourceTimeMs(t1) <= sourceTimeMs(t2).
C28_SourceTimeMonotonic ==
    [][(SourceTimeComputed /\ outputTimeMs <= outputTimeMs') => sourceTime <= sourceTime']_vars

-----------------------------------------------------------------------------
(* The two slide mappings taken together *)

InSegment(seg, t) == seg.slideStartMs <= t /\ t < seg.slideEndMs

InNoComputedSegment(t) ==
    LET segs == computeSlideSegments(sceneEventsOf(slideScenes))
    IN \A i \in 1..Len(segs) : ~InSegment(segs[i], t)

InTimestampOrder(slides) ==
    \A i \in 1..(Len(slides) - 1) : slides[i].timestampMs <= slides[i + 1].timestampMs

NonEmptyTexts == \A i \in 1..Len(texts) : texts[i].length >= 1

\* every boundary is a number, the segments tile [0, total] and none has a negative
\* duration
TilesTotal ==
    /\ ContiguousFromZero
    /\ \A k \in 1..Len(segments) :
        /\ segments[k].startMs.kind = "number"
        /\ segments[k].endMs.kind = "number"
        /\ segments[k].durationMs = Num(segments[k].endMs.ms - segments[k].startMs.ms)
        /\ segments[k].durationMs.ms >= 0

\* C30 as stated: for N >= 1 non-empty texts, a total duration >= 0 and silences
\* lying within [0, total], mapSilencesToSegments returns, on the silence path and on
\* the proportional fallback, N segments that tile [0, total]: the first starts at 0,
\* each starts where the previous one ends, the last ends at total, and every segment
\* has durationMs = endMs - startMs >= 0.
C30_SegmentsTileTotal ==
    (SegmentsComputed /\ NonEmptyTexts) => TilesTotal

-----------------------------------------------------------------------------
(* What DemoVideo is expected to draw *)

SlideSceneEvents == SelectSeq(events, LAMBDA e : e.type = "scene" /\ "slide" \in DOMAIN e)

\* the clock reading of an event, in frames
ClockFrames(e) == (e.timestampMs.num * FPS) \div (e.timestampMs.den * 1000)

\* the image files of the frames captured and held for the slide scenes: a slide's
\* scene event is emitted when the clock stands after its last frame
SlideFrameFiles ==
    {ExpandedFiles(manifest)[ClockFrames(SlideSceneEvents[i])] :
        i \in 1..Len(SlideSceneEvents)}

ShowsSlide == resolution.type = "source" /\ resolution.file \in SlideFrameFiles

RenderedFrame ==
    /\ Resolved
    /\ outputFrame < totalOutputFrames(manifest, transitionMarkers)

\* C21 as stated: the browser-chrome overlay and the cursor are not drawn on any
\* output frame that shows a slide scene (the frames captured and held for a scene
\* with a slide) nor on any output frame that resolves to a Transition; they are
\* drawn on all other frames.
C21_ChromeOffOnSlidesAndTransitions ==
    RenderedFrame =>
        /\ showChrome = ~(ShowsSlide \/ resolution.type = "transition")
        /\ showCursor = ~(ShowsSlide \/ resolution.type = "transition")

-----------------------------------------------------------------------------
(* Who issues screenshots *)

\* a screenshot issued by captureOneFrame on behalf of wait() or resolveTransition
\* has not returned yet
ExplicitCaptureInFlight == pc \in {"wait_shot", "resolving"}

\* the capture loop has not returned: it runs, or it is still in its last iteration
LoopActive == captureRunning \/ loopPc # "idle"

\* C24 as stated: only one party issues screenshots at a time: an explicit capture by
\* the runner never overlaps a running capture loop, and capture stays paused from
\* transition() until the next resolving action, also when narrate() or wait() come
\* in between.
C24_OneScreenshotIssuer ==
    /\ ExplicitCaptureInFlight => ~LoopActive
    /\ transitionPending => ~captureRunning

-----------------------------------------------------------------------------
(* How runScenario is left *)

\* the exceptions thrown inside the try block of runScenario, by the scenario, the
\* driver or a helper
ScenarioErrors == {"NoNarration", "screenshot", "action", "InvalidArgument"}

\* runScenario has returned or thrown after its browser was launched
RunScenarioExited ==
    \/ pc \in {"recorded", "render", "done"}
    \/ pc = "exit1" /\ error \in ScenarioErrors \cup {"InvalidTimeline"}

\* the finally block has run: page, context and browser are closed on every way out
\* of the try block, so the browser is open only while the scenario is in progress
BrowserClosed ==
    pc \in {"extract", "tts", "record", "recorded", "render", "done", "exit1"}

\* C25 as stated: on every exit path of runScenario, normal completion, a scenario or
\* driver failure and a failed action, the capture loop is stopped (not running, no
\* screenshot of it in flight or still to be issued) and the page, the context and the
\* browser are closed.
C25_LoopStoppedAndBrowserClosedOnExit ==
    RunScenarioExited => (~captureRunning /\ loopPc = "idle" /\ BrowserClosed)

-----------------------------------------------------------------------------
(* The virtual clock and the manifest *)

\* C27: after any sequence of capture-loop ticks, explicit captures and addHold
\* calls, virtualFrameIndex equals the expanded frame count of the manifest, so that
\* currentTimeMs() is that count times 1000/fps, and it never decreases; a failed
\* screenshot of the loop adds no manifest entry, leaves the clock unchanged, and the
\* loop goes on to its sleep and its next test of the flag.
C27_ClockIsExpandedFrameCount ==
    /\ [](/\ virtualFrameIndex = expandedFrameCount(manifest)
          /\ currentTimeMs(virtualFrameIndex) =
                 [num |-> expandedFrameCount(manifest) * 1000, den |-> FPS])
    /\ [][virtualFrameIndex' >= virtualFrameIndex]_vars
    /\ [][LoopScreenshotFails =>
             (/\ manifest' = manifest
              /\ virtualFrameIndex' = virtualFrameIndex
              /\ captureRunning' = captureRunning
              /\ loopPc' = "sleep")]_vars

\* a loop frame, an explicit frame with its hold and a failed screenshot (a file
\* number no entry carries) have all happened
C27_Witness ==
    /\ pc = "ready"
    /\ \E i \in 1..Len(manifest) : manifest[i].type = "hold"
    /\ \E i \in 1..Len(manifest) : manifest[i].type = "frame" /\ manifest[i].file = 1
    /\ \E n \in 1..frameFileCounter : \A i \in 1..Len(manifest) : manifest[i].file # n
    /\ loopPc = "sleep"

-----------------------------------------------------------------------------
(* What an iteration of the deduplicating capture loop does *)

\* the loop found its screenshot equal to the previous one
DedupStep == dedupedFrames' = dedupedFrames + 1

\* the loop handed a buffer to writeFile
LoopWriteStep == loopPc = "await_write" /\ loopPc' = "sleep"

\* the manifest gained one held frame of the last file at its tail: a new hold of one
\* frame, or one more frame on the hold that is the tail
HoldAddedAtTail ==
    \/ manifest' = Append(manifest, [type |-> "hold", file |-> lastFrameFile, count |-> 1])
    \/ /\ manifest # <<>>
       /\ manifest[Len(manifest)].type = "hold"
       /\ manifest' = [manifest EXCEPT ![Len(manifest)].count = @ + 1]

FrameAddedAtTail(file) == manifest' = Append(manifest, FrameEntry(file))

StrictlyIncreasing(seq) == \A i \in 1..(Len(seq) - 1) : seq[i] < seq[i + 1]

\* C26 as stated: when a screenshot's hash equals the previous hash, the loop appends
\* a Hold to the manifest tail, or increments the tail Hold's count by one, and
\* writes nothing to disk; otherwise it writes the buffer under a new, strictly
\* increasing frame number and appends a Frame entry of that file; in both cases the
\* virtual frame index grows by exactly one.
C26_DedupAppendsHold ==
    /\ [][DedupStep =>
             (/\ HoldAddedAtTail
              /\ diskWrites' = diskWrites
              /\ virtualFrameIndex' = virtualFrameIndex + 1)]_vars
    /\ [][LoopWriteStep =>
             (/\ Len(diskWrites') = Len(diskWrites) + 1
              /\ StrictlyIncreasing(diskWrites')
              /\ FrameAddedAtTail(diskWrites'[Len(diskWrites')])
              /\ virtualFrameIndex' = virtualFrameIndex + 1)]_vars

-----------------------------------------------------------------------------
(* What waitForDuration waits for *)

\* ceil(ms * fps / 1000): the least whole number of frames that lasts ms or longer
CeilFrames(ms) ==
    CHOOSE n \in 0..(ms + 1) :
        /\ n * 1000 >= ms * CaptureFps
        /\ n = 0 \/ (n - 1) * 1000 < ms * CaptureFps

WaitCalled == pc = "cap_ready" /\ pc' = "cap_wait"

\* C23: waitForDuration(ms) does not return before the virtual clock has advanced by
\* at least ceil(ms * fps / 1000) frames since the call: the frame it waits for,
\* fixed at the call and not changed while it waits, lies at least that many frames
\* past the clock of the call, and it returns only with the clock at or past that
\* frame.  It eventually returns, provided the capture loop is running and its
\* screenshots eventually succeed.
C23_WaitForDurationWaitsFrames ==
    /\ [][WaitCalled => targetFrame' - virtualFrameIndex >= CeilFrames(waitMs')]_vars
    /\ [][(pc = "cap_wait" /\ pc' = "cap_wait") =>
             (targetFrame' = targetFrame /\ waitMs' = waitMs)]_vars
    /\ [][(pc = "cap_wait" /\ pc' # "cap_wait") => virtualFrameIndex' >= targetFrame]_vars
    /\ (pc = "cap_wait" /\ captureRunning) ~> (pc # "cap_wait")

\* a wait of 63 ms called at clock 0 has returned after two frames, one screenshot of
\* the loop having failed meanwhile
C23_Witness ==
    /\ pc = "cap_ready"
    /\ waitMs = 63
    /\ targetFrame = 2
    /\ virtualFrameIndex >= 2
    /\ captureFailures = 1

-----------------------------------------------------------------------------
(* When the capture loop is at rest *)

\* the runner is inside a pauseCapture that has not returned yet
AwaitingPause == pc \in {"narration", "scene_slide", "transition", "ending", "cap_ending"}

\* the flag is down and no pauseCapture is waiting: the last pauseCapture has
\* returned and resumeCapture has not been called since, or no loop was started yet
PauseReturned == ~captureRunning /\ ~AwaitingPause

\* a step of the runner, not of the loop or of a write
RunnerStep == <<pc, opIndex>>' # <<pc, opIndex>>

\* C22: pauseCapture() returns only after the capture loop has observed the stop
\* flag, finished its in-flight iteration and flushed any pending disk write, so that
\* between its return and the next resumeCapture() the loop changes neither the
\* manifest nor the virtual clock; a loop is started only when none is alive, and
\* resumeCapture() while the loop is running starts no second loop and leaves the
\* running one where it is, so at most one loop instance is ever active.
C22_PauseWaitsForLoop ==
    /\ [](PauseReturned => (loopPc = "idle" /\ pendingWrite = 0))
    /\ [][(PauseReturned /\ ~RunnerStep) =>
             (manifest' = manifest /\ virtualFrameIndex' = virtualFrameIndex)]_vars
    /\ [][(~captureRunning /\ captureRunning') => loopPc = "idle"]_vars
    /\ [][(captureRunning /\ RunnerStep) => (loopPc' = loopPc /\ loopFile' = loopFile)]_vars

\* pauseCapture has returned after a loop that wrote two files and deduplicated a
\* frame, and the final frame has been written
C22_Witness ==
    /\ pc = "cap_done"
    /\ ~captureRunning
    /\ loopPc = "idle"
    /\ dedupedFrames >= 1
    /\ Len(diskWrites) >= 3

====
